---- MODULE Spec2Model ----
(***************************************************************************)
(* A model of the manifest-driven agent registry of                        *)
(* docker/langgraph/app/core/agent_registry.py: discovery of agent         *)
(* versions on disk, alias resolution, version ordering and the run        *)
(* endpoint; and of the run ledger of docker/langgraph/app/storage/        *)
(* schema_store.py.                                                        *)
(*                                                                         *)
(* Strings are sequences of one-character strings, so that lower(),        *)
(* replace(), lstrip() and the comparison of strings are computed          *)
(* character by character as Python computes them.  A dict is a sequence   *)
(* of <<key, value>> pairs in insertion order, as a Python dict is.        *)
(***************************************************************************)
EXTENDS Integers, Sequences, FiniteSets, TLC

VARIABLES
    tree,               \* the agents directory on disk
    d_pc,               \* discover_agents: position in the function
    agent_dirs,         \* discover_agents: family directories still to visit
    agent_dir,          \* discover_agents: the family directory being visited
    version_dirs,       \* discover_agents: version directories still to visit
    registry,           \* discover_agents: the local dict being filled
    app_pc,             \* register_agents: "starting", "serving" or "crashed"
    registry_by_id,     \* register_agents: the registry discover_agents returned
    registry_by_alias,  \* register_agents: alias -> version map
    response_model,     \* register_agents: what _build_response_model returned
    metadata,           \* register_agents: what get_agent_metadata returned
    rq,                 \* per client: the request being handled and its locals
    heap,               \* the objects the handlers have created and not yet dropped
    v_pc,               \* a call of the version functions: its position
    versions_arg,       \* the iterable of version strings passed to them
    sort_keys,          \* _version_sort_key of each element of versions_arg
    latest_version,     \* what resolve_latest_version returned
    first_pass,         \* what an earlier discover_agents pass over the tree returned
    manifest_path,      \* load_manifest: the file at the path it is given
    m_pc,               \* load_manifest: position in the function
    manifest_payload,   \* load_manifest: what json.loads returned
    m_result,           \* load_manifest: the manifest returned or the error raised
    agent_runs,         \* schema_store: the rows of the table agent_runs, oldest rowid first
    _table_initialized, \* schema_store: the module flag of init_db
    _lock,              \* schema_store: the RLock, its owner and how often it holds it
    clock,              \* the hour datetime.now(timezone.utc) reads
    th,                 \* per thread: the ledger call it is in and its locals
    last_save           \* history: per run id, what the last save_run inserted

vars == <<tree, d_pc, agent_dirs, agent_dir, version_dirs, registry,
          app_pc, registry_by_id, registry_by_alias, response_model, metadata,
          rq, heap,
          v_pc, versions_arg, sort_keys, latest_version, first_pass,
          manifest_path, m_pc, manifest_payload, m_result,
          agent_runs, _table_initialized, _lock, clock, th, last_save>>

discoveryVars == <<tree, d_pc, agent_dirs, agent_dir, version_dirs, registry>>
appVars == <<app_pc, registry_by_id, registry_by_alias, response_model, metadata>>
requestVars == <<rq, heap>>
versionVars == <<v_pc, versions_arg, sort_keys, latest_version>>
passVars == <<first_pass>>
manifestVars == <<manifest_path, m_pc, manifest_payload, m_result>>
ledgerVars == <<agent_runs, _table_initialized, _lock, clock, th, last_save>>
pureVars == <<versionVars, passVars, manifestVars, ledgerVars>>
notVersionVars == <<passVars, manifestVars, ledgerVars>>
notPassVars == <<versionVars, manifestVars, ledgerVars>>
notManifestVars == <<versionVars, passVars, ledgerVars>>
notLedgerVars == <<versionVars, passVars, manifestVars>>

----------------------------------------------------------------------------
(* Strings *)

\* The code point of a character (Python compares strings by code point).
Ord(c) ==
    CASE c = "+" -> 43
      [] c = "-" -> 45
      [] c = "." -> 46
      [] c = "0" -> 48
      [] c = "1" -> 49
      [] c = "2" -> 50
      [] c = "5" -> 53
      [] c = "A" -> 65
      [] c = "B" -> 66
      [] c = "V" -> 86
      [] c = "_" -> 95
      [] c = "a" -> 97
      [] c = "b" -> 98
      [] c = "v" -> 118
      [] c = "x" -> 120

\* s < t for Python strings: the first differing character decides, a proper
\* prefix is smaller.
StrLess(s, t) ==
    \E i \in 1..(Len(t)) :
        /\ \A j \in 1..(i - 1) : j <= Len(s) /\ s[j] = t[j]
        /\ \/ i = Len(s) + 1
           \/ i <= Len(s) /\ Ord(s[i]) < Ord(t[i])

\* All strings over the alphabet `chars` of length at most n.
RECURSIVE StringsUpTo(_, _)
StringsUpTo(chars, n) ==
    IF n = 0 THEN {<<>>}
    ELSE LET shorter == StringsUpTo(chars, n - 1)
         IN  shorter \cup {Append(s, c) : s \in shorter, c \in chars}

----------------------------------------------------------------------------
(* Python dicts: <<key, value>> pairs in insertion order *)

EmptyDict == <<>>

DictKeys(d) == [i \in 1..Len(d) |-> d[i][1]]

DictKeySet(d) == {d[i][1] : i \in 1..Len(d)}

DictHas(d, k) == \E i \in 1..Len(d) : d[i][1] = k

DictGet(d, k) == d[CHOOSE i \in 1..Len(d) : d[i][1] = k][2]

\* d[k] = v: a new key goes last, an existing key keeps its position.
DictPut(d, k, v) ==
    IF DictHas(d, k)
    THEN [i \in 1..Len(d) |-> IF d[i][1] = k THEN <<k, v>> ELSE d[i]]
    ELSE Append(d, <<k, v>>)

----------------------------------------------------------------------------
(* The agents directory: <family>/<version>/{manifest.json, agent.py} *)

MaxDirs == 3

FamilyNames == {<<"a">>, <<"b">>}
VersionDirNames == {<<"v", "1">>, <<"v", "2">>}
Slots == FamilyNames \X VersionDirNames

TreeIds == {<<"a">>, <<"b">>}
TreeVersions == {<<"1">>, <<"2">>}

\* manifest.json of a version directory: absent, rejected by load_manifest,
\* or a valid AgentManifest (of which only the identity is modelled).
AbsentManifest == [state |-> "absent", agent_id |-> <<>>, version |-> <<>>]
InvalidManifest == [state |-> "invalid", agent_id |-> <<>>, version |-> <<>>]
ValidManifest(id, ver) == [state |-> "valid", agent_id |-> id, version |-> ver]
TreeManifests == {ValidManifest(id, ver) : id \in TreeIds, ver \in TreeVersions}

\* What importing <family>.<version>.agent gives: an import error, a module
\* without one of the six required attributes, or a module that declares
\* agent_id and agent_version.
NoModule ==
    [state |-> "import_error", agent_id |-> <<>>, agent_version |-> <<>>,
     agent_input_model |-> "none", agent_output_model |-> "none"]
PartialModule ==
    [state |-> "missing_attrs", agent_id |-> <<>>, agent_version |-> <<>>,
     agent_input_model |-> "none", agent_output_model |-> "none"]
AgentModule(id, ver, input_model, output_model) ==
    [state |-> "ok", agent_id |-> id, agent_version |-> ver,
     agent_input_model |-> input_model, agent_output_model |-> output_model]

FileEntry ==
    [is_dir |-> FALSE, manifest |-> AbsentManifest, agent_py |-> FALSE, module |-> NoModule]
DirEntry(manifest, agent_py, module) ==
    [is_dir |-> TRUE, manifest |-> manifest, agent_py |-> agent_py, module |-> module]

\* The modules a tree pairs with manifest m: the declared identity differs
\* from the manifest's in at most one of its two parts.
ModulesFor(m) ==
    {AgentModule(id, ver, "MinerInput", "MinerOutput") :
        id \in {m.agent_id}, ver \in TreeVersions}
    \cup {AgentModule(id, ver, "MinerInput", "MinerOutput") :
            id \in TreeIds, ver \in {m.version}}

BrokenManifest == ValidManifest(<<"a">>, <<"1">>)

\* The entries a version slot is drawn from.
TreeEntries ==
    {FileEntry,
     DirEntry(AbsentManifest, FALSE, NoModule),
     DirEntry(InvalidManifest, FALSE, NoModule),
     DirEntry(InvalidManifest, TRUE, NoModule),
     DirEntry(BrokenManifest, FALSE, NoModule),
     DirEntry(BrokenManifest, TRUE, NoModule),
     DirEntry(BrokenManifest, TRUE, PartialModule)}
    \cup UNION {{DirEntry(m, TRUE, mod) : mod \in ModulesFor(m)} : m \in TreeManifests}

\* A tree: base_path may be missing; otherwise at most MaxDirs entries.
Trees ==
    {[exists |-> FALSE, entries |-> <<>>]}
    \cup {[exists |-> TRUE, entries |-> e] :
            e \in UNION {[S -> TreeEntries] :
                           S \in {T \in SUBSET Slots : Cardinality(T) <= MaxDirs}}}

----------------------------------------------------------------------------
(* Version ordering *)

\* str.lstrip(chars)
RECURSIVE LStrip(_, _)
LStrip(s, chars) ==
    IF s # <<>> /\ Head(s) \in chars THEN LStrip(Tail(s), chars) ELSE s

IsDigit(c) == c \in {"0", "1", "2", "5"}

DigitValue(c) == Ord(c) - Ord("0")

\* str.split("."): the segments between the dots.
RECURSIVE SplitDots(_)
SplitDots(s) ==
    IF \A i \in 1..Len(s) : s[i] # "."
    THEN <<s>>
    ELSE LET dot == CHOOSE i \in 1..Len(s) : s[i] = "." /\ \A j \in 1..(i - 1) : s[j] # "."
         IN  <<SubSeq(s, 1, dot - 1)>> \o SplitDots(SubSeq(s, dot + 1, Len(s)))

\* int() of a string of digits
RECURSIVE IntOf(_)
IntOf(digits) ==
    IF digits = <<>> THEN 0
    ELSE 10 * IntOf(SubSeq(digits, 1, Len(digits) - 1)) + DigitValue(digits[Len(digits)])

\* packaging.version.Version(value) accepts value.  Over the characters of
\* VersionChars a string is a PEP 440 version exactly when it is a release
\* segment N(.N)*: none of the pre, post, dev and local markers can be
\* spelled, and the optional leading "v" has been stripped before the call.
IsVersion(value) ==
    LET segments == SplitDots(value)
    IN  \A i \in 1..Len(segments) :
            /\ segments[i] # <<>>
            /\ \A j \in 1..Len(segments[i]) : IsDigit(segments[i][j])

RECURSIVE StripTrailingZeros(_)
StripTrailingZeros(release) ==
    IF release # <<>> /\ release[Len(release)] = 0
    THEN StripTrailingZeros(SubSeq(release, 1, Len(release) - 1))
    ELSE release

\* What Version objects are compared by: the release as a tuple of integers
\* without its trailing zeros (packaging.version._cmpkey).
ReleaseKey(value) ==
    LET segments == SplitDots(value)
    IN  StripTrailingZeros([i \in 1..Len(segments) |-> IntOf(segments[i])])

\* a < b for tuples of integers
IntTupleLess(a, b) ==
    \E i \in 1..Len(b) :
        /\ \A j \in 1..(i - 1) : j <= Len(a) /\ a[j] = b[j]
        /\ \/ i = Len(a) + 1
           \/ i <= Len(a) /\ a[i] < b[i]

\* Lines 88-98.  packaging is installed wherever this module imports (langgraph
\* depends on it), so the fallback of lines 99-101 is not taken.
_version_sort_key(version) ==
    LET value == LStrip(version, {"v", "V"})
    IN  IF IsVersion(value) THEN <<0, ReleaseKey(value)>> ELSE <<1, value>>

KeyEqual(k1, k2) == k1[1] = k2[1] /\ k1[2] = k2[2]

\* k1 < k2 for the tuples _version_sort_key returns
KeyLess(k1, k2) ==
    \/ k1[1] < k2[1]
    \/ k1[1] = 0 /\ k2[1] = 0 /\ IntTupleLess(k1[2], k2[2])
    \/ k1[1] = 1 /\ k2[1] = 1 /\ StrLess(k1[2], k2[2])

\* max(versions, key=_version_sort_key): the first element, in the order the
\* iterable gives them, that no later element exceeds.
RECURSIVE MaxFrom(_, _)
MaxFrom(best, rest) ==
    IF rest = <<>> THEN best
    ELSE IF KeyLess(_version_sort_key(best), _version_sort_key(Head(rest)))
         THEN MaxFrom(Head(rest), Tail(rest))
         ELSE MaxFrom(best, Tail(rest))

\* The key that was registered last, whatever its rank.
LastRegisteredVersion(versions) == versions[Len(versions)]

\* Lines 104-108, for a non-empty iterable.
resolve_latest_version(versions) == MaxFrom(Head(versions), Tail(versions))

\* sorted(versions, key=_version_sort_key, reverse=True): descending, equal
\* keys in their original order.
RECURSIVE SortedVersionsDesc(_)
SortedVersionsDesc(versions) ==
    IF versions = <<>> THEN <<>>
    ELSE LET rest == SortedVersionsDesc(Tail(versions))
             x == Head(versions)
             k == Cardinality({i \in 1..Len(rest) :
                                 KeyLess(_version_sort_key(x), _version_sort_key(rest[i]))})
         IN  SubSeq(rest, 1, k) \o <<x>> \o SubSeq(rest, k + 1, Len(rest))

----------------------------------------------------------------------------
(* Aliases *)

LowerChar(c) ==
    CASE c = "A" -> "a"
      [] c = "B" -> "b"
      [] c = "V" -> "v"
      [] OTHER -> c

\* str.lower()
Lower(s) == [i \in 1..Len(s) |-> LowerChar(s[i])]

\* str.replace(old, new) for single characters
Replace(s, old, new) == [i \in 1..Len(s) |-> IF s[i] = old THEN new ELSE s[i]]

_normalize_agent_id(agent_id) == Lower(agent_id)

\* The aliases of an id, listed without repetition.  The code builds a set;
\* the order in which its elements are visited is never observed, because
\* every alias of one id is bound to the same version map.
_aliases(agent_id) ==
    LET normalized == _normalize_agent_id(agent_id)
        under == Replace(normalized, "-", "_")
        hyphen == Replace(normalized, "_", "-")
    IN  <<normalized>>
        \o (IF under = normalized THEN <<>> ELSE <<under>>)
        \o (IF hyphen = normalized \/ hyphen = under THEN <<>> ELSE <<hyphen>>)

RECURSIVE BindAliases(_, _, _)
BindAliases(alias_registry, aliases, versions) ==
    IF aliases = <<>> THEN alias_registry
    ELSE BindAliases(DictPut(alias_registry, Head(aliases), versions),
                     Tail(aliases), versions)

RECURSIVE BuildAliasesFrom(_, _)
BuildAliasesFrom(items, alias_registry) ==
    IF items = <<>> THEN alias_registry
    ELSE BuildAliasesFrom(
            Tail(items),
            BindAliases(alias_registry, _aliases(Head(items)[1]), Head(items)[2]))

_build_alias_registry(reg) == BuildAliasesFrom(reg, EmptyDict)

----------------------------------------------------------------------------
(* discover_agents *)

\* Every order in which iterdir() may list the names in S.
Listings(S) ==
    {l \in [1..Cardinality(S) -> S] : \A i, j \in 1..Cardinality(S) : l[i] = l[j] => i = j}

\* sorted() of distinct strings
RECURSIVE SortedStrings(_)
SortedStrings(strings) ==
    IF strings = <<>> THEN <<>>
    ELSE LET rest == SortedStrings(Tail(strings))
             x == Head(strings)
             k == Cardinality({i \in 1..Len(rest) : StrLess(rest[i], x)})
         IN  SubSeq(rest, 1, k) \o <<x>> \o SubSeq(rest, k + 1, Len(rest))

\* The listing as iterdir() gave it.
UnsortedPaths(listing) == listing

\* sorted() of paths that share a parent: by name.
SortedPaths(listing) == SortedStrings(listing)

\* The entries of base_path that are directories.  A family directory exists
\* on disk exactly when it has an entry; the slot <<name, <<>>>> stands for an
\* entry of base_path itself that is a file.
FamilyDirs(t) == {slot[1] : slot \in {x \in DOMAIN t.entries : x[2] # <<>>}}

\* The entries of a family directory that are directories.
VersionDirs(t, family) ==
    {slot[2] : slot \in {x \in DOMAIN t.entries : x[1] = family /\ t.entries[x].is_dir}}

\* load_manifest raises for a missing file, invalid JSON or a failed validation.
LoadManifestRaises(entry) == entry.manifest.state # "valid"

\* As LoadAgentDefinitionRaises, without the comparison of the versions.
LoadAgentDefinitionSkipsVersion(entry) ==
    \/ entry.module.state = "import_error"
    \/ entry.module.state = "missing_attrs"
    \/ entry.module.agent_id # entry.manifest.agent_id

\* _load_agent_definition raises when the import fails, when a required
\* attribute is missing, or when the declared identity is not the manifest's.
LoadAgentDefinitionRaises(entry) ==
    \/ entry.module.state = "import_error"
    \/ entry.module.state = "missing_attrs"
    \/ entry.module.agent_id # entry.manifest.agent_id
    \/ entry.module.agent_version # entry.manifest.version

\* The AgentDefinition built from a module: its callables and models are the
\* module's, which module_path identifies.
AgentDefinition(manifest, module_path, module) ==
    [manifest |-> manifest, module_path |-> module_path,
     input_model |-> module.agent_input_model,
     output_model |-> module.agent_output_model]

NoDir == <<>>

CurrentSlot == <<agent_dir, Head(version_dirs)>>
CurrentEntry == tree.entries[CurrentSlot]

\* registry[agent_id] = {}, whatever the id held before
SetdefaultResets(reg, agent_id) == DictPut(reg, agent_id, EmptyDict)

\* registry.setdefault(agent_id, {})
Setdefault(reg, agent_id) ==
    IF DictHas(reg, agent_id) THEN reg ELSE Append(reg, <<agent_id, EmptyDict>>)

\* Lines 162-164: base_path does not exist, an empty registry is returned.
DiscoverMissingBase ==
    /\ d_pc = "start"
    /\ ~tree.exists
    /\ d_pc' = "returned"
    /\ UNCHANGED <<tree, agent_dirs, agent_dir, version_dirs, registry>>
    /\ UNCHANGED <<appVars, requestVars, pureVars>>

\* Line 166: the family directories, sorted.
DiscoverListAgentDirs ==
    /\ d_pc = "start"
    /\ tree.exists
    /\ \E listing \in Listings(FamilyDirs(tree)) :
          agent_dirs' = SortedPaths(listing)
    /\ d_pc' = "loop"
    /\ UNCHANGED <<tree, agent_dir, version_dirs, registry>>
    /\ UNCHANGED <<appVars, requestVars, pureVars>>

\* Line 167: the next family, and its version directories, sorted.
NextAgentDir ==
    /\ d_pc = "loop"
    /\ version_dirs = <<>>
    /\ agent_dirs # <<>>
    /\ agent_dir' = Head(agent_dirs)
    /\ agent_dirs' = Tail(agent_dirs)
    /\ \E listing \in Listings(VersionDirs(tree, Head(agent_dirs))) :
          version_dirs' = SortedPaths(listing)
    /\ UNCHANGED <<tree, d_pc, registry>>
    /\ UNCHANGED <<appVars, requestVars, pureVars>>

\* Lines 169-173: no manifest.json, the directory is skipped.
SkipMissingManifest ==
    /\ d_pc = "loop"
    /\ version_dirs # <<>>
    /\ CurrentEntry.manifest.state = "absent"
    /\ version_dirs' = Tail(version_dirs)
    /\ UNCHANGED <<tree, d_pc, agent_dirs, agent_dir, registry>>
    /\ UNCHANGED <<appVars, requestVars, pureVars>>

\* Line 175: load_manifest raises.
RaiseInvalidManifest ==
    /\ d_pc = "loop"
    /\ version_dirs # <<>>
    /\ CurrentEntry.manifest.state # "absent"
    /\ LoadManifestRaises(CurrentEntry)
    /\ d_pc' = "raised"
    /\ UNCHANGED <<tree, agent_dirs, agent_dir, version_dirs, registry>>
    /\ UNCHANGED <<appVars, requestVars, pureVars>>

\* A manifest without agent.py, skipped like a directory without a manifest.
SkipMissingAgentPy ==
    /\ d_pc = "loop"
    /\ version_dirs # <<>>
    /\ CurrentEntry.manifest.state # "absent"
    /\ ~LoadManifestRaises(CurrentEntry)
    /\ ~CurrentEntry.agent_py
    /\ version_dirs' = Tail(version_dirs)
    /\ UNCHANGED <<tree, d_pc, agent_dirs, agent_dir, registry>>
    /\ UNCHANGED <<appVars, requestVars, pureVars>>

\* Lines 177-181: a manifest without agent.py.
RaiseMissingAgentPy ==
    /\ d_pc = "loop"
    /\ version_dirs # <<>>
    /\ CurrentEntry.manifest.state # "absent"
    /\ ~LoadManifestRaises(CurrentEntry)
    /\ ~CurrentEntry.agent_py
    /\ d_pc' = "raised"
    /\ UNCHANGED <<tree, agent_dirs, agent_dir, version_dirs, registry>>
    /\ UNCHANGED <<appVars, requestVars, pureVars>>

\* Line 186: _load_agent_definition raises.
RaiseLoadAgentDefinition ==
    /\ d_pc = "loop"
    /\ version_dirs # <<>>
    /\ CurrentEntry.manifest.state # "absent"
    /\ ~LoadManifestRaises(CurrentEntry)
    /\ CurrentEntry.agent_py
    /\ LoadAgentDefinitionRaises(CurrentEntry)
    /\ d_pc' = "raised"
    /\ UNCHANGED <<tree, agent_dirs, agent_dir, version_dirs, registry>>
    /\ UNCHANGED <<appVars, requestVars, pureVars>>

\* The directory passed every check of lines 168-186.
Loaded ==
    /\ d_pc = "loop"
    /\ version_dirs # <<>>
    /\ CurrentEntry.manifest.state # "absent"
    /\ ~LoadManifestRaises(CurrentEntry)
    /\ CurrentEntry.agent_py
    /\ ~LoadAgentDefinitionRaises(CurrentEntry)

\* Lines 188-195: the pair is already registered, the first definition is kept.
KeepFirstDefinition ==
    /\ Loaded
    /\ LET manifest == CurrentEntry.manifest
           reg == Setdefault(registry, manifest.agent_id)
       IN  /\ DictHas(DictGet(reg, manifest.agent_id), manifest.version)
           /\ registry' = reg
    /\ version_dirs' = Tail(version_dirs)
    /\ UNCHANGED <<tree, d_pc, agent_dirs, agent_dir>>
    /\ UNCHANGED <<appVars, requestVars, pureVars>>

\* Lines 188-196: the definition is registered under its manifest's identity.
RegisterDefinition ==
    /\ Loaded
    /\ LET manifest == CurrentEntry.manifest
           reg == Setdefault(registry, manifest.agent_id)
           versions == DictGet(reg, manifest.agent_id)
       IN  /\ ~DictHas(versions, manifest.version)
           /\ registry' =
                DictPut(reg, manifest.agent_id,
                        DictPut(versions, manifest.version,
                                AgentDefinition(manifest, CurrentSlot, CurrentEntry.module)))
    /\ version_dirs' = Tail(version_dirs)
    /\ UNCHANGED <<tree, d_pc, agent_dirs, agent_dir>>
    /\ UNCHANGED <<appVars, requestVars, pureVars>>

\* Line 198: both loops are exhausted.
ReturnRegistry ==
    /\ d_pc = "loop"
    /\ version_dirs = <<>>
    /\ agent_dirs = <<>>
    /\ d_pc' = "returned"
    /\ UNCHANGED <<tree, agent_dirs, agent_dir, version_dirs, registry>>
    /\ UNCHANGED <<appVars, requestVars, pureVars>>

----------------------------------------------------------------------------
(* Requests *)

Clients == {"c1"}

\* The query parameter version: Optional[str] = None
NoVersion == [given |-> FALSE, value |-> <<>>]
GivenVersion(v) == [given |-> TRUE, value |-> v]

\* A JSON body, as far as the input models look at it: per field, whether it
\* is absent, holds a value of the declared type, or a value of another type.
FieldNames == {"metrics", "search_console_rows", "site_pages"}
Payloads == [FieldNames -> {"absent", "ok", "mistyped"}]
EmptyPayload == [f \in FieldNames |-> "absent"]

\* The required fields of the input models; their other fields have defaults.
RequiredFields(input_model) ==
    CASE input_model = "MinerInput" -> {"search_console_rows"}
      [] input_model = "PlannerInput" -> {"metrics"}
      [] OTHER -> {}

\* The fields the input models declare, required or with a default.
ModelFields(input_model) ==
    CASE input_model = "MinerInput" -> {"search_console_rows", "site_pages"}
      [] input_model = "PlannerInput" -> {"metrics"}
      [] OTHER -> {}

\* input_model(**payload) raises: a required field is missing or a field of
\* the model holds a value of the wrong type.  Fields the model does not
\* declare are ignored.
InputModelRaises(input_model, payload) ==
    \/ \E f \in RequiredFields(input_model) : payload[f] # "ok"
    \/ \E f \in ModelFields(input_model) : payload[f] = "mistyped"

\* input_model(**payload): the declared fields of the payload; a field with a
\* default that the payload leaves out holds its default.
ParsedPayload(input_model, payload) ==
    [f \in ModelFields(input_model) |->
        IF payload[f] = "absent" THEN "default" ELSE payload[f]]

NoDefinition == AgentDefinition(AbsentManifest, <<>>, NoModule)

\* No parsed payload: the local is not bound yet.
NoParsed == [f \in {} |-> "absent"]

\* What graph.invoke returns: the output of the pipeline `graph` on the
\* initial state built from `payload`.
NoResult == [graph |-> <<>>, input_model |-> "none", payload |-> NoParsed]

\* The messages of the exceptions a pipeline step may raise.
ExceptionTexts == {"KeyError: 'api_key'", "division by zero"}
NoException == [in |-> "none", text |-> "none"]

\* A response: the status, the fixed part of the detail, the text of an
\* exception interpolated into the detail, and the body of a 200.
NoResponse ==
    [status |-> 0, detail |-> "none", exc |-> "none", agent_id |-> <<>>,
     latest_version |-> <<>>, versions |-> <<>>, items |-> <<>>, result |-> NoResult]

\* The locals of a handler; graph and state hold the ids of heap objects,
\* 0 while the local is unbound.
IdleRequest ==
    [pc |-> "idle", handler |-> "none", agent_id |-> <<>>, version |-> NoVersion,
     payload |-> EmptyPayload, versions |-> EmptyDict, definition |-> NoDefinition,
     parsed_payload |-> NoParsed, graph |-> 0, state |-> 0, result |-> NoResult,
     raised |-> NoException, calls |-> <<>>, response |-> NoResponse]

\* The heap: every call of build_graph and of prepare_state creates an
\* object, and the objects of a request are dropped when its handler is left.
AllClients == {"c1", "c2"}
ObjIds == 1..(2 * Cardinality(AllClients))
FreeObject == [kind |-> "free", of |-> <<>>, input_model |-> "none", payload |-> NoParsed]
EmptyHeap == [id \in ObjIds |-> FreeObject]

\* A shared object in place of a new one.
SharedObject(h) == 1

\* A new object: an id no live object has.
NewObject(h) ==
    CHOOSE id \in ObjIds :
        h[id].kind = "free" /\ \A other \in ObjIds : other < id => h[other].kind # "free"

NoRequests == rq = [c \in Clients |-> IdleRequest] /\ heap = EmptyHeap

\* Lines 209-216: the version map of an alias, or the 404.
AliasFound(alias_registry, agent_id) ==
    DictHas(alias_registry, _normalize_agent_id(agent_id))

_resolve_versions(alias_registry, agent_id) ==
    DictGet(alias_registry, _normalize_agent_id(agent_id))

HTTPException(status, detail) == [NoResponse EXCEPT !.status = status, !.detail = detail]

----------------------------------------------------------------------------
(* register_agents *)

\* The output models of the definitions, each once, in the order of the
\* registry and of its version maps (lines 220-224).
RECURSIVE UniqueModelsFrom(_, _)
UniqueModelsFrom(definitions, unique_models) ==
    IF definitions = <<>> THEN unique_models
    ELSE LET model == Head(definitions).output_model
         IN  UniqueModelsFrom(
                 Tail(definitions),
                 IF \E i \in 1..Len(unique_models) : unique_models[i] = model
                 THEN unique_models ELSE Append(unique_models, model))

\* Every definition of the registry, version map after version map.
RECURSIVE DefinitionsOf(_)
DefinitionsOf(reg) ==
    IF reg = <<>> THEN <<>>
    ELSE [i \in 1..Len(Head(reg)[2]) |-> Head(reg)[2][i][2]] \o DefinitionsOf(Tail(reg))

NoModel == [kind |-> "None", members |-> {}]

\* `merged | model` over the models: a union of them, or the TypeError of an
\* interpreter whose classes have no `|` (lines 232-234).
RECURSIVE Merged(_, _, _)
Merged(models, merged, type_or) ==
    IF models = <<>> THEN [raised |-> FALSE, model |-> merged]
    ELSE IF merged = NoModel
         THEN Merged(Tail(models), [kind |-> "model", members |-> {Head(models)}], type_or)
         ELSE IF type_or
              THEN Merged(Tail(models),
                          [kind |-> "union", members |-> merged.members \cup {Head(models)}],
                          type_or)
              ELSE [raised |-> TRUE, model |-> NoModel]

\* Lines 219-238; type_or says whether classes support `|`.
_build_response_model(reg, type_or) ==
    LET unique_models == UniqueModelsFrom(DefinitionsOf(reg), <<>>)
    IN  IF unique_models = <<>> THEN [raised |-> FALSE, model |-> NoModel]
        ELSE IF Len(unique_models) = 1
             THEN [raised |-> FALSE,
                   model |-> [kind |-> "model", members |-> {unique_models[1]}]]
             ELSE Merged(unique_models, NoModel, type_or)

\* Lines 241-271: one entry per agent id, in the order of the sorted ids.
get_agent_metadata(reg) ==
    LET ids == SortedStrings(DictKeys(reg))
    IN  [i \in 1..Len(ids) |->
            LET versions == DictGet(reg, ids[i])
                latest == resolve_latest_version(DictKeys(versions))
            IN  [agent_id |-> DictGet(versions, latest).manifest.agent_id,
                 latest_version |-> latest,
                 versions |-> SortedVersionsDesc(DictKeys(versions)),
                 manifests |-> [j \in 1..Len(versions) |->
                                  <<versions[j][1], versions[j][2].manifest>>]]]

NoVersionCall ==
    /\ v_pc = "idle"
    /\ versions_arg = <<>>
    /\ sort_keys = <<>>
    /\ latest_version = <<>>

\* No discover_agents pass has returned before the current one.
NoPass == [done |-> FALSE, registry |-> EmptyDict]
NoEarlierPass == first_pass = NoPass

\* load_manifest is not being called.
NoFile == [exists |-> FALSE, json |-> "none", fields |-> <<>>]
NoPayload == [is_dict |-> FALSE, fields |-> <<>>]
NoManifestResult == [raised |-> "none", manifest |-> <<>>]
NoManifestCall ==
    /\ manifest_path = NoFile
    /\ m_pc = "idle"
    /\ manifest_payload = NoPayload
    /\ m_result = NoManifestResult

\* No thread is in a call of schema_store, and the database file does not
\* exist yet.
AllThreads == {"t1", "t2"}
NoDatetime == [given |-> FALSE, hour |-> 0, offset |-> 0]
NoRecord == [given |-> FALSE, run_id |-> "none", agent_id |-> <<>>, created_at |-> NoDatetime]
IdleThread ==
    [pc |-> "idle", op |-> "none", run_id |-> "none",
     agent_id |-> [given |-> FALSE, value |-> <<>>],
     created_at |-> NoDatetime, created_at_str |-> <<>>,
     rows |-> <<>>, received |-> <<>>, result |-> NoRecord]
UnlockedLock == [owner |-> "none", count |-> 0]
NoLedgerCall ==
    /\ agent_runs = <<>>
    /\ _table_initialized = FALSE
    /\ _lock = UnlockedLock
    /\ clock = 0
    /\ th = [t \in AllThreads |-> IdleThread]
    /\ last_save = <<>>

NotRegistered ==
    /\ app_pc = "starting"
    /\ registry_by_id = EmptyDict
    /\ registry_by_alias = EmptyDict
    /\ response_model = NoModel
    /\ metadata = <<>>

\* Lines 321-325 and 392-394: the registries, the response model and the
\* metadata the handlers close over.  When _build_response_model raises,
\* register_agents raises and no route exists.
RegisterAgents ==
    /\ app_pc = "starting"
    /\ d_pc = "returned"
    /\ \E type_or \in BOOLEAN :
          LET built == _build_response_model(registry, type_or)
          IN  IF built.raised
              THEN /\ app_pc' = "crashed"
                   /\ UNCHANGED <<registry_by_id, registry_by_alias, response_model, metadata>>
              ELSE /\ registry_by_id' = registry
                   /\ registry_by_alias' = _build_alias_registry(registry)
                   /\ response_model' = built.model
                   /\ metadata' = get_agent_metadata(registry)
                   /\ app_pc' = "serving"
    /\ UNCHANGED <<discoveryVars, requestVars, pureVars>>

\* discover_agents raised: register_agents does not return and no route exists.
StartupFails ==
    /\ app_pc = "starting"
    /\ d_pc = "raised"
    /\ app_pc' = "crashed"
    /\ UNCHANGED <<registry_by_id, registry_by_alias, response_model, metadata>>
    /\ UNCHANGED <<discoveryVars, requestVars, pureVars>>

InitDiscovery ==
    /\ NoLedgerCall
    /\ tree \in Trees
    /\ d_pc = "start"
    /\ agent_dirs = <<>>
    /\ agent_dir = NoDir
    /\ version_dirs = <<>>
    /\ registry = EmptyDict
    /\ NotRegistered
    /\ NoRequests
    /\ NoVersionCall
    /\ NoEarlierPass
    /\ NoManifestCall

NextDiscovery ==
    \/ DiscoverMissingBase
    \/ DiscoverListAgentDirs
    \/ NextAgentDir
    \/ SkipMissingManifest
    \/ RaiseInvalidManifest
    \/ RaiseMissingAgentPy
    \/ RaiseLoadAgentDefinition
    \/ KeepFirstDefinition
    \/ RegisterDefinition
    \/ ReturnRegistry
    \/ RegisterAgents
    \/ StartupFails

SpecDiscovery == InitDiscovery /\ [][NextDiscovery]_vars

----------------------------------------------------------------------------
(* Discovery over names that mark non-agent packages, and over files *)

\* The prefix of the names of non-agent packages, as in __pycache__.
ReservedPrefix == "_"
Reserved(name) == name # <<>> /\ name[1] = ReservedPrefix

\* A version directory of family a, a version-level and a family-level
\* directory with a reserved name, a file in family a and a file in base_path.
PlainSlot == <<<<"a">>, <<"v", "1">>>>
ReservedVersionSlot == <<<<"a">>, <<"_", "v">>>>
ReservedFamilySlot == <<<<"_", "a">>, <<"v", "1">>>>
VersionFileSlot == <<<<"a">>, <<"x">>>>
FamilyFileSlot == <<<<"b">>, <<>>>>

\* What a directory of these trees holds: no manifest, a manifest that
\* load_manifest rejects, a manifest without agent.py, a module that lacks an
\* attribute, or a loadable agent.
SkipEntries ==
    {DirEntry(AbsentManifest, FALSE, NoModule),
     DirEntry(InvalidManifest, TRUE, NoModule),
     DirEntry(BrokenManifest, FALSE, NoModule),
     DirEntry(BrokenManifest, TRUE, PartialModule),
     DirEntry(BrokenManifest, TRUE,
              AgentModule(<<"a">>, <<"1">>, "MinerInput", "MinerOutput"))}

SkipTrees ==
    {[exists |-> FALSE, entries |-> <<>>]}
    \cup {[exists |-> TRUE,
           entries |-> dirs @@ [slot \in files |-> FileEntry]] :
            dirs \in [{PlainSlot, ReservedVersionSlot, ReservedFamilySlot} -> SkipEntries],
            files \in SUBSET {VersionFileSlot, FamilyFileSlot}}

InitSkip ==
    /\ NoLedgerCall
    /\ tree \in SkipTrees
    /\ d_pc = "start"
    /\ agent_dirs = <<>>
    /\ agent_dir = NoDir
    /\ version_dirs = <<>>
    /\ registry = EmptyDict
    /\ NotRegistered
    /\ NoRequests
    /\ NoVersionCall
    /\ NoEarlierPass
    /\ NoManifestCall

SpecSkip == InitSkip /\ [][NextDiscovery]_vars

----------------------------------------------------------------------------
(* GET /agents, /agents/registry and /agents/catalog *)

\* The 200 of a handler that returns a list.
Listed(handler, items) ==
    [IdleRequest EXCEPT
        !.pc = "done",
        !.handler = handler,
        !.response = [NoResponse EXCEPT !.status = 200, !.detail = "ok", !.items = items]]

\* As ListAgents, taking the entries out of the metadata as it reports them.
ListAgentsConsuming(c) ==
    /\ app_pc = "serving"
    /\ rq[c].pc = "idle"
    /\ rq' = [rq EXCEPT ![c] =
                Listed("list_agents",
                       [i \in 1..Len(metadata) |->
                           [agent_id |-> metadata[i].agent_id,
                            latest_version |-> metadata[i].latest_version]])]
    /\ metadata' = <<>>
    /\ UNCHANGED <<app_pc, registry_by_id, registry_by_alias, response_model>>
    /\ UNCHANGED <<discoveryVars, heap, pureVars>>

\* Lines 327-332: the id and the latest version of every entry of the metadata.
ListAgents(c) ==
    /\ app_pc = "serving"
    /\ rq[c].pc = "idle"
    /\ rq' = [rq EXCEPT ![c] =
                Listed("list_agents",
                       [i \in 1..Len(metadata) |->
                           [agent_id |-> metadata[i].agent_id,
                            latest_version |-> metadata[i].latest_version]])]
    /\ UNCHANGED <<discoveryVars, appVars, heap, pureVars>>

\* Lines 334-336: the metadata.
AgentRegistry(c) ==
    /\ app_pc = "serving"
    /\ rq[c].pc = "idle"
    /\ rq' = [rq EXCEPT ![c] = Listed("agent_registry", metadata)]
    /\ UNCHANGED <<discoveryVars, appVars, heap, pureVars>>

\* Lines 274-315: the page lists, for every entry of the metadata, its id,
\* its versions and its latest version.  The grouping by category builds new
\* lists of the entries; the manifests of the model carry no category or
\* name, so the entries stay in the order of the metadata.
_render_catalog_html(items) ==
    [i \in 1..Len(items) |->
        [agent_id |-> items[i].agent_id,
         versions |-> items[i].versions,
         latest_version |-> items[i].latest_version]]

\* Lines 338-340: the catalog page.
AgentCatalog(c) ==
    /\ app_pc = "serving"
    /\ rq[c].pc = "idle"
    /\ rq' = [rq EXCEPT ![c] = Listed("agent_catalog", _render_catalog_html(metadata))]
    /\ UNCHANGED <<discoveryVars, appVars, heap, pureVars>>

----------------------------------------------------------------------------
(* GET /agents/{agent_id}/versions *)

\* Line 344: the alias is resolved, or the request ends with the 404.
ListAgentVersionsResolve(c, agent_id) ==
    /\ app_pc = "serving"
    /\ rq[c].pc = "idle"
    /\ rq' = [rq EXCEPT ![c] =
                IF AliasFound(registry_by_alias, agent_id)
                THEN [IdleRequest EXCEPT
                        !.pc = "listing",
                        !.handler = "list_agent_versions",
                        !.agent_id = agent_id,
                        !.versions = _resolve_versions(registry_by_alias, agent_id)]
                ELSE [IdleRequest EXCEPT
                        !.pc = "done",
                        !.handler = "list_agent_versions",
                        !.agent_id = agent_id,
                        !.response = HTTPException(404, "Agent not found")]]
    /\ UNCHANGED heap
    /\ UNCHANGED <<discoveryVars, appVars, pureVars>>

\* Lines 345-352: the canonical id, the latest version and the sorted versions.
ListAgentVersionsReturn(c) ==
    /\ rq[c].pc = "listing"
    /\ rq' = [rq EXCEPT ![c].pc = "done",
                        ![c].response =
                            [status |-> 200,
                             detail |-> "ok",
                             agent_id |-> rq[c].versions[1][2].manifest.agent_id,
                             latest_version |->
                                 resolve_latest_version(DictKeys(rq[c].versions)),
                             versions |-> SortedVersionsDesc(DictKeys(rq[c].versions))]]
    /\ UNCHANGED heap
    /\ UNCHANGED <<discoveryVars, appVars, pureVars>>

\* The response has been sent and the locals of the handler are gone, with
\* the objects only they referred to; the client may send its next request.
Complete(c) ==
    /\ rq[c].pc = "done"
    /\ rq' = [rq EXCEPT ![c] = IdleRequest]
    /\ heap' = [id \in ObjIds |->
                 IF id \in {rq[c].graph, rq[c].state} THEN FreeObject ELSE heap[id]]
    /\ UNCHANGED <<discoveryVars, appVars, pureVars>>

----------------------------------------------------------------------------
(* POST /agents/{agent_id}/run *)

\* `if version:` an absent parameter and the empty string are both false.
Truthy(version) == version.given /\ version.value # <<>>

\* What FastAPI answers when an exception other than HTTPException leaves a handler.
UnhandledException == HTTPException(500, "Internal Server Error")

\* Line 358: the alias is resolved, or the request ends with the 404.
RunAgentResolve(c, agent_id, version, payload) ==
    /\ app_pc = "serving"
    /\ rq[c].pc = "idle"
    /\ rq' = [rq EXCEPT ![c] =
                IF AliasFound(registry_by_alias, agent_id)
                THEN [IdleRequest EXCEPT
                        !.pc = "select",
                        !.handler = "run_agent",
                        !.agent_id = agent_id,
                        !.version = version,
                        !.payload = payload,
                        !.versions = _resolve_versions(registry_by_alias, agent_id)]
                ELSE [IdleRequest EXCEPT
                        !.pc = "done",
                        !.handler = "run_agent",
                        !.agent_id = agent_id,
                        !.version = version,
                        !.payload = payload,
                        !.response = HTTPException(404, "Agent not found")]]
    /\ UNCHANGED heap
    /\ UNCHANGED <<discoveryVars, appVars, pureVars>>

\* Lines 360-368: a version that is not in the map; the detail joins
\* sorted(versions.keys()), kept here as the list that is joined.
RunAgentUnknownVersion(c) ==
    /\ rq[c].pc = "select"
    /\ Truthy(rq[c].version)
    /\ ~DictHas(rq[c].versions, rq[c].version.value)
    /\ rq' = [rq EXCEPT ![c].pc = "done",
                        ![c].response =
                            [HTTPException(400, "Version not found") EXCEPT
                                !.versions = SortedStrings(DictKeys(rq[c].versions))]]
    /\ UNCHANGED heap
    /\ UNCHANGED <<discoveryVars, appVars, pureVars>>

\* Lines 360-369: the definition registered under the requested version.
RunAgentExactVersion(c) ==
    /\ rq[c].pc = "select"
    /\ Truthy(rq[c].version)
    /\ DictHas(rq[c].versions, rq[c].version.value)
    /\ rq' = [rq EXCEPT ![c].pc = "validate",
                        ![c].definition = DictGet(rq[c].versions, rq[c].version.value)]
    /\ UNCHANGED heap
    /\ UNCHANGED <<discoveryVars, appVars, pureVars>>

\* Lines 370-372: the definition of the latest version.
RunAgentLatestVersion(c) ==
    /\ rq[c].pc = "select"
    /\ ~Truthy(rq[c].version)
    /\ rq' = [rq EXCEPT ![c].pc = "validate",
                        ![c].definition =
                            DictGet(rq[c].versions,
                                    resolve_latest_version(DictKeys(rq[c].versions)))]
    /\ UNCHANGED heap
    /\ UNCHANGED <<discoveryVars, appVars, pureVars>>

\* Line 377: the 400 whose detail ends with the text of the validation error.
InvalidPayload(exc) == [HTTPException(400, "Invalid payload") EXCEPT !.exc = exc.text]

\* The 500 with the text of the exception in its detail.
ExecutionFailedWithText(exc) ==
    [HTTPException(500, "Agent execution failed") EXCEPT !.exc = exc.text]

\* Line 386: the 500 with the fixed detail; the exception goes to the log only.
ExecutionFailed(exc) == HTTPException(500, "Agent execution failed")

\* Whether a call returns or raises, and with which message.
Outcomes == {"none"} \cup ExceptionTexts

\* Lines 374-377: the payload is parsed by the input model, or the 400.
RunAgentValidate(c) ==
    /\ rq[c].pc = "validate"
    /\ LET input_model == rq[c].definition.input_model
           exc == [in |-> "input_model", text |-> "ValidationError"]
       IN  rq' = [rq EXCEPT
                    ![c].calls = Append(@, "input_model"),
                    ![c].pc = IF InputModelRaises(input_model, rq[c].payload)
                              THEN "done" ELSE "build",
                    ![c].parsed_payload =
                        IF InputModelRaises(input_model, rq[c].payload)
                        THEN @ ELSE ParsedPayload(input_model, rq[c].payload),
                    ![c].raised = IF InputModelRaises(input_model, rq[c].payload)
                                  THEN exc ELSE @,
                    ![c].response =
                        IF InputModelRaises(input_model, rq[c].payload)
                        THEN InvalidPayload(exc) ELSE @]
    /\ UNCHANGED heap
    /\ UNCHANGED <<discoveryVars, appVars, pureVars>>

\* build_graph called on a payload that has not been parsed yet.
RunAgentBuildGraphUnvalidated(c) ==
    /\ rq[c].pc = "validate"
    /\ rq' = [rq EXCEPT ![c].calls = Append(@, "build_graph"),
                        ![c].pc = "prepare"]
    /\ UNCHANGED heap
    /\ UNCHANGED <<discoveryVars, appVars, pureVars>>

\* Line 379: build_graph() returns a new compiled graph, or raises outside
\* any try.
RunAgentBuildGraph(c) ==
    /\ rq[c].pc = "build"
    /\ \E outcome \in Outcomes :
          IF outcome = "none"
          THEN LET id == NewObject(heap)
               IN  /\ heap' = [heap EXCEPT ![id] =
                                 [FreeObject EXCEPT
                                    !.kind = "graph",
                                    !.of = rq[c].definition.module_path]]
                   /\ rq' = [rq EXCEPT ![c].calls = Append(@, "build_graph"),
                                       ![c].graph = id,
                                       ![c].pc = "prepare"]
          ELSE /\ rq' = [rq EXCEPT
                           ![c].calls = Append(@, "build_graph"),
                           ![c].raised = [in |-> "build_graph", text |-> outcome],
                           ![c].pc = "done",
                           ![c].response = UnhandledException]
               /\ UNCHANGED heap
    /\ UNCHANGED <<discoveryVars, appVars, pureVars>>

\* Line 380: prepare_state(parsed_payload) returns a new dict built from the
\* parsed payload, or raises outside any try.
RunAgentPrepareState(c) ==
    /\ rq[c].pc = "prepare"
    /\ \E outcome \in Outcomes :
          IF outcome = "none"
          THEN LET id == NewObject(heap)
               IN  /\ heap' = [heap EXCEPT ![id] =
                                 [FreeObject EXCEPT
                                    !.kind = "state",
                                    !.input_model = rq[c].definition.input_model,
                                    !.payload = rq[c].parsed_payload]]
                   /\ rq' = [rq EXCEPT ![c].calls = Append(@, "prepare_state"),
                                       ![c].state = id,
                                       ![c].pc = "invoke"]
          ELSE /\ rq' = [rq EXCEPT
                           ![c].calls = Append(@, "prepare_state"),
                           ![c].raised = [in |-> "prepare_state", text |-> outcome],
                           ![c].pc = "done",
                           ![c].response = UnhandledException]
               /\ UNCHANGED heap
    /\ UNCHANGED <<discoveryVars, appVars, pureVars>>

\* graph.invoke(state): the nodes of the graph applied to the state; each
\* node returns a new dict and leaves the one it was given as it was.
Invoke(graph, state) ==
    [graph |-> graph.of, input_model |-> state.input_model, payload |-> state.payload]

\* As RunAgentInvoke, with the pipeline built and run again after a failure.
RunAgentInvokeRetrying(c) ==
    /\ rq[c].pc = "invoke"
    /\ \E outcome \in Outcomes :
          rq' = [rq EXCEPT
                   ![c].calls = Append(@, "invoke"),
                   ![c].pc = IF outcome = "none" THEN "output" ELSE "build",
                   ![c].result = IF outcome = "none"
                                 THEN Invoke(heap[rq[c].graph], heap[rq[c].state])
                                 ELSE @]
    /\ UNCHANGED heap
    /\ UNCHANGED <<discoveryVars, appVars, pureVars>>

\* Lines 382-386: graph.invoke(state) returns a result, or the 500.
RunAgentInvoke(c) ==
    /\ rq[c].pc = "invoke"
    /\ \E outcome \in Outcomes :
          LET exc == [in |-> "invoke", text |-> outcome]
          IN  rq' = [rq EXCEPT
                       ![c].calls = Append(@, "invoke"),
                       ![c].pc = IF outcome = "none" THEN "output" ELSE "done",
                       ![c].result = IF outcome = "none"
                                     THEN Invoke(heap[rq[c].graph], heap[rq[c].state])
                                     ELSE @,
                       ![c].raised = IF outcome = "none" THEN @ ELSE exc,
                       ![c].response = IF outcome = "none" THEN @
                                       ELSE ExecutionFailed(exc)]
    /\ UNCHANGED heap
    /\ UNCHANGED <<discoveryVars, appVars, pureVars>>

\* Lines 388-390: the result validated by the output model, which may raise
\* outside any try.
RunAgentReturn(c) ==
    /\ rq[c].pc = "output"
    /\ \E outcome \in {"none", "ValidationError"} :
          rq' = [rq EXCEPT
                   ![c].calls = Append(@, "output_model"),
                   ![c].pc = "done",
                   ![c].raised = IF outcome = "none" THEN @
                                 ELSE [in |-> "output_model", text |-> outcome],
                   ![c].response =
                       IF outcome = "none"
                       THEN [NoResponse EXCEPT !.status = 200, !.detail = "ok",
                                               !.result = rq[c].result]
                       ELSE UnhandledException]
    /\ UNCHANGED heap
    /\ UNCHANGED <<discoveryVars, appVars, pureVars>>

----------------------------------------------------------------------------
(* Requests against a registry of one or two agents *)

MaxVersions == 2

RunVersions == {<<>>, <<"1">>, <<"v", "1">>, <<"2">>, <<"x">>}
UnregisteredVersion == <<"5">>

FirstAgentId == <<"a", "-", "b">>
SecondAgentId == <<"B">>
RunRequestIds == {<<"a", "-", "b">>, <<"A", "_", "B">>, <<"b">>, <<"x">>}

\* The bodies sent: each is written for one of the two input models, its
\* fields absent, well typed or mistyped; and one body that holds the required
\* field of both.
RunPayloads ==
    {payload \in Payloads :
        \/ payload["metrics"] = "absent"
        \/ payload["search_console_rows"] = "absent" /\ payload["site_pages"] = "absent"
        \/ /\ payload["metrics"] = "ok"
           /\ payload["search_console_rows"] = "mistyped"
           /\ payload["site_pages"] = "absent"}

RunRequestVersions ==
    {NoVersion} \cup {GivenVersion(v) : v \in RunVersions \cup {UnregisteredVersion}}

\* The name of the i-th version directory of a family: v0, v1, v2, v5.
VersionDirName(i) == <<"v", <<"0", "1", "2", "5">>[i]>>

\* The version directories of the first agent declare the versions of `declared`,
\* in sorted directory order.
VersionLists ==
    UNION {Listings(S) :
             S \in {T \in SUBSET RunVersions : T # {} /\ Cardinality(T) <= MaxVersions}}

FirstAgentEntries(declared) ==
    [slot \in {<<<<"a">>, VersionDirName(i)>> : i \in 1..Len(declared)} |->
        LET ver == declared[CHOOSE i \in 1..Len(declared) : VersionDirName(i) = slot[2]]
        IN  DirEntry(ValidManifest(FirstAgentId, ver), TRUE,
                     AgentModule(FirstAgentId, ver, "MinerInput", "MinerOutput"))]

SecondAgentEntries ==
    [slot \in {<<<<"b">>, VersionDirName(1)>>} |->
        DirEntry(ValidManifest(SecondAgentId, <<"1">>), TRUE,
                 AgentModule(SecondAgentId, <<"1">>, "PlannerInput", "PlannerOutput"))]

DispatchTrees ==
    {[exists |-> TRUE, entries |-> FirstAgentEntries(declared)] :
        declared \in VersionLists}
    \cup {[exists |-> TRUE, entries |-> FirstAgentEntries(declared) @@ SecondAgentEntries] :
            declared \in VersionLists}

InitDispatch ==
    /\ NoLedgerCall
    /\ tree \in DispatchTrees
    /\ d_pc = "start"
    /\ agent_dirs = <<>>
    /\ agent_dir = NoDir
    /\ version_dirs = <<>>
    /\ registry = EmptyDict
    /\ NotRegistered
    /\ NoRequests
    /\ NoVersionCall
    /\ NoEarlierPass
    /\ NoManifestCall

NextDispatch ==
    \/ DiscoverListAgentDirs
    \/ NextAgentDir
    \/ RegisterDefinition
    \/ ReturnRegistry
    \/ RegisterAgents
    \/ \E c \in Clients : ListAgents(c)
    \/ \E c \in Clients : AgentRegistry(c)
    \/ \E c \in Clients : AgentCatalog(c)
    \/ \E c \in Clients, agent_id \in RunRequestIds :
          ListAgentVersionsResolve(c, agent_id)
    \/ \E c \in Clients : ListAgentVersionsReturn(c)
    \/ \E c \in Clients, agent_id \in RunRequestIds,
          version \in RunRequestVersions, payload \in RunPayloads :
          RunAgentResolve(c, agent_id, version, payload)
    \/ \E c \in Clients : RunAgentUnknownVersion(c)
    \/ \E c \in Clients : RunAgentExactVersion(c)
    \/ \E c \in Clients : RunAgentLatestVersion(c)
    \/ \E c \in Clients : RunAgentValidate(c)
    \/ \E c \in Clients : RunAgentBuildGraph(c)
    \/ \E c \in Clients : RunAgentPrepareState(c)
    \/ \E c \in Clients : RunAgentInvoke(c)
    \/ \E c \in Clients : RunAgentReturn(c)
    \/ \E c \in Clients : Complete(c)

SpecDispatch == InitDispatch /\ [][NextDispatch]_vars

----------------------------------------------------------------------------
(* Concurrent run requests to one agent *)

\* Bodies the input model of the first agent accepts or rejects, which differ
\* in site_pages only.
ConcurrentPayloads ==
    {payload \in Payloads :
        payload["search_console_rows"] = "ok" /\ payload["metrics"] = "absent"}

ConcurrentVersions == {NoVersion, GivenVersion(<<"2">>)}

InitConcurrent ==
    /\ NoLedgerCall
    /\ tree = [exists |-> TRUE, entries |-> FirstAgentEntries(<<<<"1">>, <<"2">>>>)]
    /\ d_pc = "start"
    /\ agent_dirs = <<>>
    /\ agent_dir = NoDir
    /\ version_dirs = <<>>
    /\ registry = EmptyDict
    /\ NotRegistered
    /\ rq = [c \in AllClients |-> IdleRequest]
    /\ heap = EmptyHeap
    /\ NoVersionCall
    /\ NoEarlierPass
    /\ NoManifestCall

\* The handlers of the clients run in any interleaving of their steps.
NextConcurrent ==
    \/ DiscoverListAgentDirs
    \/ NextAgentDir
    \/ RegisterDefinition
    \/ ReturnRegistry
    \/ RegisterAgents
    \/ \E c \in AllClients : ListAgents(c)
    \/ \E c \in AllClients : AgentRegistry(c)
    \/ \E c \in AllClients : AgentCatalog(c)
    \/ \E c \in AllClients : ListAgentVersionsResolve(c, FirstAgentId)
    \/ \E c \in AllClients : ListAgentVersionsReturn(c)
    \/ \E c \in AllClients, version \in ConcurrentVersions, payload \in ConcurrentPayloads :
          RunAgentResolve(c, FirstAgentId, version, payload)
    \/ \E c \in AllClients : RunAgentExactVersion(c)
    \/ \E c \in AllClients : RunAgentLatestVersion(c)
    \/ \E c \in AllClients : RunAgentValidate(c)
    \/ \E c \in AllClients : RunAgentBuildGraph(c)
    \/ \E c \in AllClients : RunAgentPrepareState(c)
    \/ \E c \in AllClients : RunAgentInvoke(c)
    \/ \E c \in AllClients : RunAgentReturn(c)
    \/ \E c \in AllClients : Complete(c)

SpecConcurrent == InitConcurrent /\ [][NextConcurrent]_vars

\* The objects the request of client c holds.
ObjectsOf(c) == {rq[c].graph, rq[c].state} \ {0}

\* What the run request of client c returns when no other request is in
\* progress: the output of the pipeline of its definition on its own payload.
OutputAlone(c) ==
    [graph |-> rq[c].definition.module_path,
     input_model |-> rq[c].definition.input_model,
     payload |-> [f \in ModelFields(rq[c].definition.input_model) |->
                    IF rq[c].payload[f] = "absent" THEN "default" ELSE rq[c].payload[f]]]

\* C14: concurrent run requests share no pipeline and no state: the objects
\* of two requests are different objects, the pipeline of a request is the
\* one its own build_graph made, its state holds its own parsed payload, and
\* the output of a request is the output its payload gives when run alone.
C14_RequestsAreIsolated ==
    /\ \A c1, c2 \in AllClients : c1 # c2 => ObjectsOf(c1) \cap ObjectsOf(c2) = {}
    /\ \A c \in AllClients :
          /\ rq[c].graph # 0 =>
                /\ rq[c].graph # rq[c].state
                /\ heap[rq[c].graph].kind = "graph"
                /\ heap[rq[c].graph].of = rq[c].definition.module_path
          /\ rq[c].state # 0 =>
                /\ heap[rq[c].state].kind = "state"
                /\ heap[rq[c].state].payload = rq[c].parsed_payload
          /\ rq[c].pc = "output" => rq[c].result = OutputAlone(c)
          /\ rq[c].handler = "run_agent" /\ rq[c].response.status = 200 =>
                rq[c].response.result = OutputAlone(c)

\* C14 witness: two requests for the same agent and version with different
\* payloads were in progress together; one has returned its output while the
\* other holds its pipeline and state and has not run them yet.
C14_Witness ==
    \E c1, c2 \in AllClients :
        /\ c1 # c2
        /\ rq[c1].definition = rq[c2].definition
        /\ rq[c1].payload # rq[c2].payload
        /\ rq[c1].response.status = 200
        /\ rq[c1].state # 0
        /\ rq[c2].pc = "invoke"
        /\ rq[c1].response.result # OutputAlone(c2)

----------------------------------------------------------------------------
(* Two discovery passes over one tree *)

\* Trees on which discover_agents returns: every entry is a file, a directory
\* without a manifest, or a directory whose module loads under its manifest.
ReturningTrees ==
    {t \in Trees :
        \A slot \in DOMAIN t.entries :
            LET entry == t.entries[slot]
            IN  \/ ~entry.is_dir
                \/ entry.manifest.state = "absent"
                \/ /\ entry.manifest.state = "valid"
                   /\ entry.agent_py
                   /\ ~LoadAgentDefinitionRaises(entry)}

InitTwoPasses ==
    /\ NoLedgerCall
    /\ tree \in ReturningTrees
    /\ d_pc = "start"
    /\ agent_dirs = <<>>
    /\ agent_dir = NoDir
    /\ version_dirs = <<>>
    /\ registry = EmptyDict
    /\ NotRegistered
    /\ NoRequests
    /\ NoVersionCall
    /\ NoEarlierPass
    /\ NoManifestCall

\* Line 166 without the sort: the family directories as iterdir() lists them.
DiscoverAgainUnsorted ==
    /\ d_pc = "returned"
    /\ ~first_pass.done
    /\ tree.exists
    /\ first_pass' = [done |-> TRUE, registry |-> registry]
    /\ registry' = EmptyDict
    /\ \E listing \in Listings(FamilyDirs(tree)) : agent_dirs' = listing
    /\ agent_dir' = NoDir
    /\ version_dirs' = <<>>
    /\ d_pc' = "loop"
    /\ UNCHANGED tree
    /\ UNCHANGED <<appVars, requestVars, notPassVars>>

\* discover_agents is called again on the tree, which has not changed: lines
\* 161-166 with a new local registry, and the family directories in whatever
\* order iterdir() lists them this time, sorted.
DiscoverAgain ==
    /\ d_pc = "returned"
    /\ ~first_pass.done
    /\ tree.exists
    /\ first_pass' = [done |-> TRUE, registry |-> registry]
    /\ registry' = EmptyDict
    /\ \E listing \in Listings(FamilyDirs(tree)) : agent_dirs' = SortedPaths(listing)
    /\ agent_dir' = NoDir
    /\ version_dirs' = <<>>
    /\ d_pc' = "loop"
    /\ UNCHANGED tree
    /\ UNCHANGED <<appVars, requestVars, notPassVars>>

NextTwoPasses ==
    \/ DiscoverMissingBase
    \/ DiscoverListAgentDirs
    \/ NextAgentDir
    \/ SkipMissingManifest
    \/ KeepFirstDefinition
    \/ RegisterDefinition
    \/ ReturnRegistry
    \/ DiscoverAgain

SpecTwoPasses == InitTwoPasses /\ [][NextTwoPasses]_vars

\* What a registry answers to a query: the 404, the unknown-version 400, or
\* the definition that would run (lines 209-216 and 358-372).
QueryIds == {<<"a">>, <<"A">>, <<"b">>, <<"x">>}
QueryVersions == {NoVersion} \cup {GivenVersion(v) : v \in {<<>>, <<"1">>, <<"2">>, <<"5">>}}

Answer(reg, agent_id, version) ==
    LET alias_registry == _build_alias_registry(reg)
    IN  IF ~AliasFound(alias_registry, agent_id) THEN [status |-> 404, definition |-> NoDefinition]
        ELSE LET versions == _resolve_versions(alias_registry, agent_id)
             IN  IF Truthy(version)
                 THEN IF DictHas(versions, version.value)
                      THEN [status |-> 200, definition |-> DictGet(versions, version.value)]
                      ELSE [status |-> 400, definition |-> NoDefinition]
                 ELSE [status |-> 200,
                       definition |->
                           DictGet(versions, resolve_latest_version(DictKeys(versions)))]

\* Two families declare the same (agent_id, version).
DeclaredTwice ==
    \E s, t \in {slot \in DOMAIN tree.entries : tree.entries[slot].manifest.state = "valid"} :
        /\ s[1] # t[1]
        /\ tree.entries[s].manifest = tree.entries[t].manifest

\* C16: when a second discover_agents pass over the unchanged tree has
\* returned, its registry gives every alias query and every version query
\* the answer the registry of the first pass gives, whatever the orders in
\* which the directories were listed in the two passes; the ids and the
\* versions are in the same order in both registries, so that the latest
\* version is the same one even among versions of equal rank.
C16_PassesAgree ==
    d_pc = "returned" /\ first_pass.done =>
        /\ \A agent_id \in QueryIds, version \in QueryVersions :
              Answer(registry, agent_id, version)
                  = Answer(first_pass.registry, agent_id, version)
        /\ DictKeys(registry) = DictKeys(first_pass.registry)
        /\ \A agent_id \in DictKeySet(registry) :
              DictKeys(DictGet(registry, agent_id))
                  = DictKeys(DictGet(first_pass.registry, agent_id))

\* C16 witness: both passes have returned on a tree in which two families
\* declare the same agent id and version, and the registry is not empty.
C16_Witness ==
    /\ d_pc = "returned"
    /\ first_pass.done
    /\ DeclaredTwice
    /\ Cardinality(FamilyDirs(tree)) = 2
    /\ registry # EmptyDict

----------------------------------------------------------------------------
(* Registration of agents with several output models *)

OutputModels == {"MinerOutput", "PlannerOutput", "ReportOutput"}

\* The directory of family a or b and version v1 or v2 declares that agent
\* id and that version, with any of the output models.
ResponseModelEntries(slot) ==
    {DirEntry(ValidManifest(slot[1], Tail(slot[2])), TRUE,
              AgentModule(slot[1], Tail(slot[2]), "MinerInput", output_model)) :
        output_model \in OutputModels}

ResponseModelTrees ==
    {[exists |-> TRUE, entries |-> e] :
        e \in UNION {{f \in [S -> UNION {ResponseModelEntries(slot) : slot \in S}] :
                        \A slot \in S : f[slot] \in ResponseModelEntries(slot)} :
                     S \in {T \in SUBSET Slots : Cardinality(T) <= MaxDirs}}}

InitResponseModel ==
    /\ NoLedgerCall
    /\ tree \in ResponseModelTrees
    /\ d_pc = "start"
    /\ agent_dirs = <<>>
    /\ agent_dir = NoDir
    /\ version_dirs = <<>>
    /\ registry = EmptyDict
    /\ NotRegistered
    /\ NoRequests
    /\ NoVersionCall
    /\ NoEarlierPass
    /\ NoManifestCall

NextResponseModel ==
    \/ DiscoverListAgentDirs
    \/ NextAgentDir
    \/ RegisterDefinition
    \/ ReturnRegistry
    \/ RegisterAgents

SpecResponseModel == InitResponseModel /\ [][NextResponseModel]_vars

----------------------------------------------------------------------------
(* load_manifest over manifest files *)

MaxBadFields == 2

\* Lines 33-43: the fields of AgentManifest; none has a default.
ManifestFields ==
    {"agent_id", "version", "name", "category", "description", "when_to_use",
     "inputs", "outputs", "owner", "frequency", "cost"}

\* A field that a manifest may leave out.
FieldRequiredExceptCost(f) == f # "cost"

\* Every field of AgentManifest is declared without a default value.
FieldRequired(f) == TRUE

\* The top-level object of a manifest: per field, whether the key is absent,
\* holds a value of the declared type, or a value of another type.
ManifestObjects ==
    {fields \in [ManifestFields -> {"absent", "ok", "mistyped"}] :
        Cardinality({f \in ManifestFields : fields[f] # "ok"}) <= MaxBadFields}

\* A manifest.json: missing, not JSON, JSON that is no object, or an object.
ManifestFiles ==
    {NoFile,
     [exists |-> TRUE, json |-> "invalid", fields |-> <<>>],
     [exists |-> TRUE, json |-> "array", fields |-> <<>>]}
    \cup {[exists |-> TRUE, json |-> "object", fields |-> fields] : fields \in ManifestObjects}

InitManifest ==
    /\ NoLedgerCall
    /\ manifest_path \in ManifestFiles
    /\ m_pc = "called"
    /\ manifest_payload = NoPayload
    /\ m_result = NoManifestResult
    /\ tree = [exists |-> FALSE, entries |-> <<>>]
    /\ d_pc = "start"
    /\ agent_dirs = <<>>
    /\ agent_dir = NoDir
    /\ version_dirs = <<>>
    /\ registry = EmptyDict
    /\ NotRegistered
    /\ NoRequests
    /\ NoVersionCall
    /\ NoEarlierPass

\* Lines 74-75: the file does not exist.
ManifestMissing ==
    /\ m_pc = "called"
    /\ ~manifest_path.exists
    /\ m_pc' = "raised"
    /\ m_result' = [raised |-> "ValueError: Manifest file missing", manifest |-> <<>>]
    /\ UNCHANGED <<manifest_path, manifest_payload>>
    /\ UNCHANGED <<discoveryVars, appVars, requestVars, notManifestVars>>

\* Lines 77-80: json.loads raises JSONDecodeError.
ManifestInvalidJSON ==
    /\ m_pc = "called"
    /\ manifest_path.exists
    /\ manifest_path.json = "invalid"
    /\ m_pc' = "raised"
    /\ m_result' = [raised |-> "ValueError: Invalid JSON in manifest", manifest |-> <<>>]
    /\ UNCHANGED <<manifest_path, manifest_payload>>
    /\ UNCHANGED <<discoveryVars, appVars, requestVars, notManifestVars>>

\* Line 78: json.loads returns the value the file holds.
ManifestParsed ==
    /\ m_pc = "called"
    /\ manifest_path.exists
    /\ manifest_path.json # "invalid"
    /\ manifest_payload' = [is_dict |-> manifest_path.json = "object", fields |-> manifest_path.fields]
    /\ m_pc' = "parsed"
    /\ UNCHANGED <<manifest_path, m_result>>
    /\ UNCHANGED <<discoveryVars, appVars, requestVars, notManifestVars>>

\* Line 83: `**payload` of a value that is no mapping raises TypeError, which
\* the except of line 84 does not take.
ManifestNotAMapping ==
    /\ m_pc = "parsed"
    /\ ~manifest_payload.is_dict
    /\ m_pc' = "raised"
    /\ m_result' = [raised |-> "TypeError: argument after ** must be a mapping",
                    manifest |-> <<>>]
    /\ UNCHANGED <<manifest_path, manifest_payload>>
    /\ UNCHANGED <<discoveryVars, appVars, requestVars, notManifestVars>>

\* AgentManifest(**payload) raises ValidationError: a required field is
\* missing, or a field holds a value that is not of its type.
ValidationFails(fields) ==
    \E f \in ManifestFields :
        \/ fields[f] = "mistyped"
        \/ fields[f] = "absent" /\ FieldRequired(f)

\* Lines 82-85: the manifest, or the ValueError of a failed validation.
ManifestValidated ==
    /\ m_pc = "parsed"
    /\ manifest_payload.is_dict
    /\ IF ValidationFails(manifest_payload.fields)
       THEN /\ m_pc' = "raised"
            /\ m_result' = [raised |-> "ValueError: Manifest validation failed",
                            manifest |-> <<>>]
       ELSE /\ m_pc' = "returned"
            /\ m_result' = [raised |-> "none", manifest |-> manifest_payload.fields]
    /\ UNCHANGED <<manifest_path, manifest_payload>>
    /\ UNCHANGED <<discoveryVars, appVars, requestVars, notManifestVars>>

NextManifest ==
    \/ ManifestMissing
    \/ ManifestInvalidJSON
    \/ ManifestParsed
    \/ ManifestNotAMapping
    \/ ManifestValidated

SpecManifest == InitManifest /\ [][NextManifest]_vars

----------------------------------------------------------------------------
(* The run ledger: storage/schema_store.py *)

MaxClock == 1

\* The thread that calls the ledger here; the others stay idle.
LedgerThreads == {"t1"}

RunIds == {"r1", "r2"}
LedgerAgentIds == {<<>>, <<"a">>, <<"b">>}

\* An Optional[str] argument: left out (None), or a string.
NoAgentId == [given |-> FALSE, value |-> <<>>]
AgentId(agent_id) == [given |-> TRUE, value |-> agent_id]
AgentIdArguments == {NoAgentId} \cup {AgentId(agent_id) : agent_id \in LedgerAgentIds}

\* An aware datetime, as far as its hour and its UTC offset in hours go; the
\* date, the minutes and the seconds are the same in every datetime here.
Datetime(hour, offset) == [given |-> TRUE, hour |-> hour, offset |-> offset]

\* What a caller passes as created_at: nothing, or 01:00 at +00:00 or +01:00.
CreatedAts == {NoDatetime, Datetime(1, 0), Datetime(1, 1)}

\* The point in time a datetime denotes, in hours UTC: what comparing two
\* aware datetimes compares.
Instant(dt) == dt.hour - dt.offset

DigitChar(d) ==
    CASE d = 0 -> "0"
      [] d = 1 -> "1"
      [] d = 2 -> "2"

TwoDigits(n) == <<DigitChar(n \div 10), DigitChar(n % 10)>>

\* datetime.isoformat(): YYYY-MM-DDTHH:MM:SS+HH:MM, of which the hour, the
\* sign and the hours of the offset are kept, in that order.
isoformat(dt) ==
    TwoDigits(dt.hour)
    \o <<IF dt.offset < 0 THEN "-" ELSE "+">>
    \o TwoDigits(IF dt.offset < 0 THEN 0 - dt.offset ELSE dt.offset)

\* datetime.fromisoformat() of such a text.
fromisoformat(text) ==
    LET hour == 10 * DigitValue(text[1]) + DigitValue(text[2])
        hours == 10 * DigitValue(text[4]) + DigitValue(text[5])
    IN  Datetime(hour, IF text[3] = "-" THEN 0 - hours ELSE hours)

\* A row of agent_runs.  The payload columns are written once and read back
\* as they were written; they are left out.
Row(run_id, agent_id, created_at_str) ==
    [run_id |-> run_id, agent_id |-> agent_id, created_at |-> created_at_str]

\* Lines 119-132: sqlite3 hands the TIMESTAMP column back as the text stored.
_row_to_record(row) ==
    [given |-> TRUE,
     run_id |-> row.run_id,
     agent_id |-> row.agent_id,
     created_at |-> fromisoformat(row.created_at)]

\* INSERT OR REPLACE on the primary key run_id: the row that has the key is
\* deleted and the new row is inserted.  SelectSeq keeps the rows of a WHERE
\* clause in rowid order.
InsertOrReplace(rows, row) ==
    LET OtherKey(r) == r.run_id # row.run_id
    IN  Append(SelectSeq(rows, OtherKey), row)

\* The orders in which ORDER BY created_at DESC may hand out rows: the column
\* holds text, which SQLite compares byte by byte; rows with equal texts come
\* in an order SQLite does not promise.
OrderByCreatedAtDesc(rows) ==
    {ordered \in [1..Len(rows) -> {rows[i] : i \in 1..Len(rows)}] :
        /\ \A i \in 1..Len(rows) : \E j \in 1..Len(rows) : ordered[j] = rows[i]
        /\ \A i, j \in 1..Len(rows) :
              i < j => ~StrLess(ordered[i].created_at, ordered[j].created_at)}

\* threading.RLock: free, or held by one thread that may take it again.
CanAcquire(t) == _lock.owner \in {"none", t}
Acquired(t) == [owner |-> t, count |-> _lock.count + 1]
Released(t) ==
    IF _lock.count = 1 THEN UnlockedLock ELSE [owner |-> t, count |-> _lock.count - 1]

InitLedger ==
    /\ tree = [exists |-> FALSE, entries |-> <<>>]
    /\ d_pc = "start"
    /\ agent_dirs = <<>>
    /\ agent_dir = NoDir
    /\ version_dirs = <<>>
    /\ registry = EmptyDict
    /\ NotRegistered
    /\ NoRequests
    /\ NoVersionCall
    /\ NoEarlierPass
    /\ NoManifestCall
    /\ NoLedgerCall

\* save_run(run_id, agent_id, ..., created_at) is called.
SaveRunCall(t, run_id, agent_id, created_at) ==
    /\ th[t].pc = "idle"
    /\ th' = [th EXCEPT ![t] =
                [IdleThread EXCEPT
                    !.pc = "init_db",
                    !.op = "save_run",
                    !.run_id = run_id,
                    !.agent_id = AgentId(agent_id),
                    !.created_at = created_at]]
    /\ UNCHANGED <<agent_runs, _table_initialized, _lock, clock, last_save>>
    /\ UNCHANGED <<discoveryVars, appVars, requestVars, notLedgerVars>>

\* get_run(run_id) is called.
GetRunCall(t, run_id) ==
    /\ th[t].pc = "idle"
    /\ th' = [th EXCEPT ![t] =
                [IdleThread EXCEPT
                    !.pc = "init_db",
                    !.op = "get_run",
                    !.run_id = run_id]]
    /\ UNCHANGED <<agent_runs, _table_initialized, _lock, clock, last_save>>
    /\ UNCHANGED <<discoveryVars, appVars, requestVars, notLedgerVars>>

\* list_runs(agent_id) is called and the iteration over what it returns
\* begins: the body of the generator starts with the first next().
ListRunsCall(t, agent_id) ==
    /\ th[t].pc = "idle"
    /\ th' = [th EXCEPT ![t] =
                [IdleThread EXCEPT
                    !.pc = "init_db",
                    !.op = "list_runs",
                    !.agent_id = agent_id]]
    /\ UNCHANGED <<agent_runs, _table_initialized, _lock, clock, last_save>>
    /\ UNCHANGED <<discoveryVars, appVars, requestVars, notLedgerVars>>

\* Lines 45-65, as the first statement of the three functions: under the
\* lock, the table is created unless the flag says it has been.
init_db(t) ==
    /\ th[t].pc = "init_db"
    /\ CanAcquire(t)
    /\ _table_initialized' = TRUE
    /\ th' = [th EXCEPT ![t].pc =
                CASE th[t].op = "save_run" -> "serialize"
                  [] th[t].op = "get_run" -> "select"
                  [] th[t].op = "list_runs" -> "query"]
    /\ UNCHANGED <<agent_runs, _lock, clock, last_save>>
    /\ UNCHANGED <<discoveryVars, appVars, requestVars, notLedgerVars>>

\* Lines 92-97: created_at defaults to the current time in UTC and becomes text.
SaveRunSerialize(t) ==
    /\ th[t].pc = "serialize"
    /\ LET created_at == IF th[t].created_at.given THEN th[t].created_at
                         ELSE Datetime(clock, 0)
       IN  th' = [th EXCEPT ![t].pc = "insert",
                            ![t].created_at = created_at,
                            ![t].created_at_str = isoformat(created_at)]
    /\ UNCHANGED <<agent_runs, _table_initialized, _lock, clock, last_save>>
    /\ UNCHANGED <<discoveryVars, appVars, requestVars, notLedgerVars>>

\* Lines 99-116: the row is written under the lock, and save_run returns None.
SaveRunInsert(t) ==
    /\ th[t].pc = "insert"
    /\ CanAcquire(t)
    /\ LET row == Row(th[t].run_id, th[t].agent_id.value, th[t].created_at_str)
       IN  /\ agent_runs' = InsertOrReplace(agent_runs, row)
           /\ last_save' = DictPut(last_save, th[t].run_id,
                                   [given |-> TRUE,
                                    run_id |-> th[t].run_id,
                                    agent_id |-> th[t].agent_id.value,
                                    created_at |-> th[t].created_at])
    /\ th' = [th EXCEPT ![t].pc = "returned"]
    /\ UNCHANGED <<_table_initialized, _lock, clock>>
    /\ UNCHANGED <<discoveryVars, appVars, requestVars, notLedgerVars>>

\* Lines 139-143: the row of the run id, or None.
GetRunSelect(t) ==
    /\ th[t].pc = "select"
    /\ CanAcquire(t)
    /\ LET HasKey(r) == r.run_id = th[t].run_id
           rows == SelectSeq(agent_runs, HasKey)
       IN  th' = [th EXCEPT ![t].pc = "returned",
                            ![t].result = IF rows = <<>> THEN NoRecord
                                          ELSE _row_to_record(rows[1])]
    /\ UNCHANGED <<agent_runs, _table_initialized, _lock, clock, last_save>>
    /\ UNCHANGED <<discoveryVars, appVars, requestVars, notLedgerVars>>

\* Lines 150-161 up to the first yield: the query gets its WHERE clause when
\* agent_id is true, the lock is taken and all rows are fetched; the first
\* record is handed out with the lock held, or there is none and the
\* generator ends.
ListRunsQuery(t) ==
    /\ th[t].pc = "query"
    /\ CanAcquire(t)
    /\ LET Selected(r) == Truthy(th[t].agent_id) => r.agent_id = th[t].agent_id.value
       IN  \E rows \in OrderByCreatedAtDesc(SelectSeq(agent_runs, Selected)) :
              IF Len(rows) = 0
              THEN /\ th' = [th EXCEPT ![t].pc = "returned"]
                   /\ UNCHANGED _lock
              ELSE /\ th' = [th EXCEPT ![t].pc = "suspended",
                                       ![t].rows = rows,
                                       ![t].received = <<_row_to_record(rows[1])>>]
                   /\ _lock' = Acquired(t)
    /\ UNCHANGED <<agent_runs, _table_initialized, clock, last_save>>
    /\ UNCHANGED <<discoveryVars, appVars, requestVars, notLedgerVars>>

\* Lines 160-161, a later next(): the next record, or the end of the loop,
\* where the with blocks are left and the lock is given back.
ListRunsNext(t) ==
    /\ th[t].pc = "suspended"
    /\ LET n == Len(th[t].received)
       IN  IF n < Len(th[t].rows)
           THEN /\ th' = [th EXCEPT ![t].received =
                            Append(@, _row_to_record(th[t].rows[n + 1]))]
                /\ UNCHANGED _lock
           ELSE /\ th' = [th EXCEPT ![t].pc = "returned"]
                /\ _lock' = Released(t)
    /\ UNCHANGED <<agent_runs, _table_initialized, clock, last_save>>
    /\ UNCHANGED <<discoveryVars, appVars, requestVars, notLedgerVars>>

\* The caller drops the suspended generator: GeneratorExit is raised at the
\* yield of line 161, the with blocks are left and the lock is given back.
ListRunsClose(t) ==
    /\ th[t].pc = "suspended"
    /\ th' = [th EXCEPT ![t] = IdleThread]
    /\ _lock' = Released(t)
    /\ UNCHANGED <<agent_runs, _table_initialized, clock, last_save>>
    /\ UNCHANGED <<discoveryVars, appVars, requestVars, notLedgerVars>>

\* The caller has what the call returned and goes on.
LedgerReturn(t) ==
    /\ th[t].pc = "returned"
    /\ th' = [th EXCEPT ![t] = IdleThread]
    /\ UNCHANGED <<agent_runs, _table_initialized, _lock, clock, last_save>>
    /\ UNCHANGED <<discoveryVars, appVars, requestVars, notLedgerVars>>

\* An hour passes.
Tick ==
    /\ clock < MaxClock
    /\ clock' = clock + 1
    /\ UNCHANGED <<agent_runs, _table_initialized, _lock, th, last_save>>
    /\ UNCHANGED <<discoveryVars, appVars, requestVars, notLedgerVars>>

NextLedger ==
    \/ \E t \in LedgerThreads, run_id \in RunIds, agent_id \in LedgerAgentIds,
          created_at \in CreatedAts :
          SaveRunCall(t, run_id, agent_id, created_at)
    \/ \E t \in LedgerThreads, run_id \in RunIds : GetRunCall(t, run_id)
    \/ \E t \in LedgerThreads, agent_id \in AgentIdArguments : ListRunsCall(t, agent_id)
    \/ \E t \in LedgerThreads : init_db(t)
    \/ \E t \in LedgerThreads : SaveRunSerialize(t)
    \/ \E t \in LedgerThreads : SaveRunInsert(t)
    \/ \E t \in LedgerThreads : GetRunSelect(t)
    \/ \E t \in LedgerThreads : ListRunsQuery(t)
    \/ \E t \in LedgerThreads : ListRunsNext(t)
    \/ \E t \in LedgerThreads : ListRunsClose(t)
    \/ \E t \in LedgerThreads : LedgerReturn(t)
    \/ Tick

SpecLedger == InitLedger /\ [][NextLedger]_vars

----------------------------------------------------------------------------
(* Several threads on the run ledger *)

\* The calls the threads make: they save and look up two runs of one agent
\* and list its runs; created_at is left to save_run.
NextLedgerThreads ==
    \/ \E t \in AllThreads, run_id \in RunIds :
          SaveRunCall(t, run_id, <<"a">>, NoDatetime)
    \/ \E t \in AllThreads, run_id \in RunIds : GetRunCall(t, run_id)
    \/ \E t \in AllThreads : ListRunsCall(t, AgentId(<<"a">>))
    \/ \E t \in AllThreads : init_db(t)
    \/ \E t \in AllThreads : SaveRunSerialize(t)
    \/ \E t \in AllThreads : SaveRunInsert(t)
    \/ \E t \in AllThreads : GetRunSelect(t)
    \/ \E t \in AllThreads : ListRunsQuery(t)
    \/ \E t \in AllThreads : ListRunsNext(t)
    \/ \E t \in AllThreads : ListRunsClose(t)
    \/ \E t \in AllThreads : LedgerReturn(t)

\* A thread that is inside save_run, get_run or the body of list_runs goes
\* on: the interpreter schedules every thread, and a thread that waits for
\* the lock is taken to get it when the lock is free again and again.  When
\* the caller of list_runs asks for the next record, or drops the generator,
\* is up to the caller.
LedgerThreadsFair ==
    \A t \in AllThreads :
        /\ SF_vars(init_db(t))
        /\ WF_vars(SaveRunSerialize(t))
        /\ SF_vars(SaveRunInsert(t))
        /\ SF_vars(GetRunSelect(t))
        /\ SF_vars(ListRunsQuery(t))

SpecLedgerThreads == InitLedger /\ [][NextLedgerThreads]_vars /\ LedgerThreadsFair

----------------------------------------------------------------------------
(* Two agents whose ids may share aliases *)

SharingIds == {<<"a", "-", "b">>, <<"a", "_", "b">>, <<"A", "-", "B">>, <<"b">>}

\* Family a declares first, family b declares second, one version each.
TwoAgentsTree(first, second) ==
    [exists |-> TRUE,
     entries |->
        (<<<<"a">>, <<"v", "1">>>> :>
            DirEntry(ValidManifest(first, <<"1">>), TRUE,
                     AgentModule(first, <<"1">>, "MinerInput", "MinerOutput")))
        @@ (<<<<"b">>, <<"v", "1">>>> :>
            DirEntry(ValidManifest(second, <<"1">>), TRUE,
                     AgentModule(second, <<"1">>, "MinerInput", "MinerOutput")))]

InitTwoAgents ==
    /\ NoLedgerCall
    /\ tree \in {TwoAgentsTree(first, second) : first, second \in SharingIds}
    /\ d_pc = "start"
    /\ agent_dirs = <<>>
    /\ agent_dir = NoDir
    /\ version_dirs = <<>>
    /\ registry = EmptyDict
    /\ NotRegistered
    /\ NoRequests
    /\ NoVersionCall
    /\ NoEarlierPass
    /\ NoManifestCall

NextTwoAgents ==
    \/ DiscoverListAgentDirs
    \/ NextAgentDir
    \/ KeepFirstDefinition
    \/ RegisterDefinition
    \/ ReturnRegistry
    \/ RegisterAgents
    \/ \E c \in Clients, agent_id \in SharingIds : ListAgentVersionsResolve(c, agent_id)
    \/ \E c \in Clients : ListAgentVersionsReturn(c)
    \/ \E c \in Clients : Complete(c)

SpecTwoAgents == InitTwoAgents /\ [][NextTwoAgents]_vars

----------------------------------------------------------------------------
(* Alias resolution over every short agent id *)

MaxIdLen == 3

IdChars == {"a", "A", "-", "_"}
AliasIds == StringsUpTo(IdChars, MaxIdLen) \ {<<>>}

\* A tree with one agent version, declared under id by manifest and module.
SingleAgentTree(id) ==
    [exists |-> TRUE,
     entries |->
        [slot \in {<<<<"a">>, <<"v", "1">>>>} |->
            DirEntry(ValidManifest(id, <<"1">>), TRUE,
                     AgentModule(id, <<"1">>, "MinerInput", "MinerOutput"))]]

InitAlias ==
    /\ NoLedgerCall
    /\ tree \in {SingleAgentTree(id) : id \in AliasIds}
    /\ d_pc = "start"
    /\ agent_dirs = <<>>
    /\ agent_dir = NoDir
    /\ version_dirs = <<>>
    /\ registry = EmptyDict
    /\ NotRegistered
    /\ NoRequests
    /\ NoVersionCall
    /\ NoEarlierPass
    /\ NoManifestCall

NextAlias ==
    \/ DiscoverListAgentDirs
    \/ NextAgentDir
    \/ RegisterDefinition
    \/ ReturnRegistry
    \/ RegisterAgents
    \/ \E c \in Clients, agent_id \in AliasIds : ListAgentVersionsResolve(c, agent_id)
    \/ \E c \in Clients : ListAgentVersionsReturn(c)
    \/ \E c \in Clients : Complete(c)

SpecAlias == InitAlias /\ [][NextAlias]_vars

\* requested differs from id only in letter case and in which of "-" and "_"
\* stands at each separator position.
SameUpToCaseAndSeparators(requested, id) ==
    /\ Len(requested) = Len(id)
    /\ \A i \in 1..Len(id) :
          \/ LowerChar(requested[i]) = LowerChar(id[i])
          \/ {requested[i], id[i]} = {"-", "_"}

\* C5: a request for an id that differs from a registered id only in case and
\* in the separator used at each position is resolved to that agent's version
\* map, ids that mix both separators included.
C5_SeparatorInsensitive ==
    \A c \in Clients :
        (/\ rq[c].handler = "list_agent_versions"
         /\ rq[c].pc \in {"listing", "done"}
         /\ \E i \in 1..Len(registry_by_id) :
               SameUpToCaseAndSeparators(rq[c].agent_id, registry_by_id[i][1]))
        => /\ rq[c].response.status # 404
           /\ \E i \in 1..Len(registry_by_id) :
                 /\ SameUpToCaseAndSeparators(rq[c].agent_id, registry_by_id[i][1])
                 /\ rq[c].versions = registry_by_id[i][2]

----------------------------------------------------------------------------
(* The version functions over every short version string *)

MaxVerLen == 2

VersionChars == {".", "0", "1", "2", "v", "x"}
ShortVersions == StringsUpTo(VersionChars, MaxVerLen) \ {<<>>}

\* "1.0.0", "2.0.0", "1.5.0"
ReleaseSamples ==
    {<<"1", ".", "0", ".", "0">>, <<"2", ".", "0", ".", "0">>, <<"1", ".", "5", ".", "0">>}

\* Every order of every set of one or two short version strings, and every
\* order of the three samples.
VersionIterables ==
    {<<v>> : v \in ShortVersions}
    \cup {pair \in ShortVersions \X ShortVersions : pair[1] # pair[2]}
    \cup Listings(ReleaseSamples)

InitVersion ==
    /\ NoLedgerCall
    /\ versions_arg \in VersionIterables
    /\ v_pc = "called"
    /\ sort_keys = <<>>
    /\ latest_version = <<>>
    /\ NoEarlierPass
    /\ NoManifestCall
    /\ tree = [exists |-> FALSE, entries |-> <<>>]
    /\ d_pc = "start"
    /\ agent_dirs = <<>>
    /\ agent_dir = NoDir
    /\ version_dirs = <<>>
    /\ registry = EmptyDict
    /\ NotRegistered
    /\ NoRequests

\* Line 106: max() computes the key of each element ...
ComputeSortKeys ==
    /\ v_pc = "called"
    /\ sort_keys' = [i \in 1..Len(versions_arg) |-> _version_sort_key(versions_arg[i])]
    /\ v_pc' = "keyed"
    /\ UNCHANGED <<versions_arg, latest_version>>
    /\ UNCHANGED <<discoveryVars, appVars, requestVars, notVersionVars>>

\* ... and returns the element that has the greatest.
ReturnLatest ==
    /\ v_pc = "keyed"
    /\ latest_version' = resolve_latest_version(versions_arg)
    /\ v_pc' = "returned"
    /\ UNCHANGED <<versions_arg, sort_keys>>
    /\ UNCHANGED <<discoveryVars, appVars, requestVars, notVersionVars>>

NextVersion ==
    \/ ComputeSortKeys
    \/ ReturnLatest

SpecVersion == InitVersion /\ [][NextVersion]_vars

\* The string _version_sort_key tries to parse, and whether it parses.
Stripped(version) == LStrip(version, {"v", "V"})
Parses(version) == IsVersion(Stripped(version))

\* The release numbers of a parseable string, without normalisation.
ReleaseNumbers(version) ==
    LET segments == SplitDots(Stripped(version))
    IN  [i \in 1..Len(segments) |-> IntOf(segments[i])]

\* a < b as versions: at the first position where the release numbers
\* differ, a missing number counting as zero.
NumericallyLess(a, b) ==
    LET Number(r, i) == IF i <= Len(r) THEN r[i] ELSE 0
        ra == ReleaseNumbers(a)
        rb == ReleaseNumbers(b)
        n == IF Len(ra) < Len(rb) THEN Len(rb) ELSE Len(ra)
    IN  \E i \in 1..n :
            /\ \A j \in 1..(i - 1) : Number(ra, j) = Number(rb, j)
            /\ Number(ra, i) < Number(rb, i)

\* C6: the sort keys order the version strings totally: a parseable string is
\* below an unparseable one, parseable strings compare by numeric value,
\* unparseable ones lexicographically, and two distinct strings never have
\* equal keys.
C6_TotalOrder ==
    v_pc \in {"keyed", "returned"} =>
        \A i, j \in 1..Len(versions_arg) :
            LET a == versions_arg[i]
                b == versions_arg[j]
            IN  /\ Parses(a) /\ ~Parses(b) => KeyLess(sort_keys[i], sort_keys[j])
                /\ Parses(a) /\ Parses(b) =>
                      (KeyLess(sort_keys[i], sort_keys[j]) <=> NumericallyLess(a, b))
                /\ ~Parses(a) /\ ~Parses(b) =>
                      (KeyLess(sort_keys[i], sort_keys[j])
                          <=> StrLess(Stripped(a), Stripped(b)))
                /\ \/ KeyLess(sort_keys[i], sort_keys[j])
                   \/ KeyLess(sort_keys[j], sort_keys[i])
                   \/ KeyEqual(sort_keys[i], sort_keys[j])
                /\ a # b => ~KeyEqual(sort_keys[i], sort_keys[j])

\* C7: resolve_latest_version returns the same element in whatever order the
\* set of versions is iterated; of {"1.0.0", "2.0.0", "1.5.0"} it returns
\* "2.0.0"; of {"v1", "v2"} it returns "v2", by the comparison of strings.
C7_LatestIsDeterministic ==
    v_pc = "returned" =>
        /\ \A order \in Listings({versions_arg[i] : i \in 1..Len(versions_arg)}) :
              resolve_latest_version(order) = latest_version
        /\ {versions_arg[i] : i \in 1..Len(versions_arg)} = ReleaseSamples =>
              latest_version = <<"2", ".", "0", ".", "0">>
        /\ {versions_arg[i] : i \in 1..Len(versions_arg)} = {<<"v", "1">>, <<"v", "2">>} =>
              /\ latest_version = <<"v", "2">>
              /\ \A i \in 1..Len(sort_keys) : sort_keys[i][1] = 1

----------------------------------------------------------------------------
(* Properties of discovery *)

\* The version directories of the tree.
TreeDirs == {slot \in DOMAIN tree.entries : tree.entries[slot].is_dir}

\* A version directory that passes every check of discover_agents.
Loadable(entry) ==
    /\ entry.is_dir
    /\ entry.manifest.state = "valid"
    /\ entry.agent_py
    /\ entry.module.state = "ok"
    /\ entry.module.agent_id = entry.manifest.agent_id
    /\ entry.module.agent_version = entry.manifest.version

\* The version directories that hold a valid manifest.
ManifestDirs == {slot \in TreeDirs : tree.entries[slot].manifest.state = "valid"}

ValidTree == \A slot \in TreeDirs : Loadable(tree.entries[slot])

\* The (agent_id, version) pairs a set of directories declares.
PairsOf(slots) ==
    {<<tree.entries[slot].manifest.agent_id, tree.entries[slot].manifest.version>> :
        slot \in slots}

\* The (agent_id, version) pairs a registry holds.
RegistryPairs(reg) ==
    UNION {{<<reg[i][1], reg[i][2][j][1]>> : j \in 1..Len(reg[i][2])} : i \in 1..Len(reg)}

UniqueKeys(d) == \A i, j \in 1..Len(d) : d[i][1] = d[j][1] => i = j

SlotLess(s, t) == StrLess(s[1], t[1]) \/ (s[1] = t[1] /\ StrLess(s[2], t[2]))

\* The first directory, in sorted family/version order, that declares the pair.
FirstSlot(id, ver) ==
    CHOOSE slot \in ManifestDirs :
        /\ PairsOf({slot}) = {<<id, ver>>}
        /\ \A other \in ManifestDirs :
              PairsOf({other}) = {<<id, ver>>} => other = slot \/ SlotLess(slot, other)

\* C1: over a tree whose version directories all hold a valid manifest and a
\* module that declares the manifest's identity, discover_agents does not
\* raise, and the registry it returns holds exactly one definition for each
\* (agent_id, version) pair present in the tree, under registry[agent_id][version],
\* and nothing else.
C1_OneEntryPerPair ==
    ValidTree =>
        /\ d_pc # "raised"
        /\ d_pc = "returned" =>
              /\ RegistryPairs(registry) = PairsOf(TreeDirs)
              /\ UniqueKeys(registry)
              /\ \A i \in 1..Len(registry) :
                    /\ registry[i][2] # EmptyDict
                    /\ UniqueKeys(registry[i][2])
                    /\ \A j \in 1..Len(registry[i][2]) :
                          registry[i][2][j][2].manifest =
                              ValidManifest(registry[i][1], registry[i][2][j][1])

\* C1 witness: a valid tree of three directories, two of them declaring the
\* same pair, has been discovered.
C1_Witness ==
    /\ d_pc = "returned"
    /\ ValidTree
    /\ Cardinality(TreeDirs) = MaxDirs
    /\ Cardinality(PairsOf(TreeDirs)) = MaxDirs - 1
    /\ \E id \in TreeIds : DictHas(registry, id) /\ Len(DictGet(registry, id)) > 1

\* C2: a directory whose pair is already registered does not abort discovery
\* (a pass stops only at a directory that fails a check); the registry that is
\* returned holds, for each pair, the definition of the first directory in
\* sorted family/version order, and the directories after a duplicate have
\* been processed, so that every pair a manifest of the tree declares is
\* registered.
C2_FirstRegistrationWins ==
    /\ d_pc = "raised" => ~Loadable(CurrentEntry)
    /\ d_pc = "returned" =>
          /\ PairsOf(ManifestDirs) \subseteq RegistryPairs(registry)
          /\ \A pair \in RegistryPairs(registry) :
                DictGet(DictGet(registry, pair[1]), pair[2]).module_path =
                    FirstSlot(pair[1], pair[2])

\* C2 witness: discovery returned from a tree in which a pair is declared
\* twice and a directory after the second declaration registered another pair.
C2_Witness ==
    /\ d_pc = "returned"
    /\ \E first, second, later \in ManifestDirs :
          /\ SlotLess(first, second)
          /\ SlotLess(second, later)
          /\ PairsOf({first}) = PairsOf({second})
          /\ PairsOf({later}) # PairsOf({first})
          /\ PairsOf({later}) \subseteq RegistryPairs(registry)

\* discover_agents is never stuck at a version directory: the body of the
\* loop skips it, registers it, keeps the first definition or raises.
DiscoveryProceeds ==
    d_pc = "loop" /\ version_dirs # <<>> =>
        ENABLED (\/ SkipMissingManifest
                 \/ RaiseInvalidManifest
                 \/ RaiseMissingAgentPy
                 \/ RaiseLoadAgentDefinition
                 \/ KeepFirstDefinition
                 \/ RegisterDefinition)

\* Some module of the tree declares an identity that is not its manifest's.
IdentityMismatch(entry) ==
    /\ entry.is_dir
    /\ entry.manifest.state = "valid"
    /\ entry.agent_py
    /\ entry.module.state = "ok"
    /\ \/ entry.module.agent_id # entry.manifest.agent_id
       \/ entry.module.agent_version # entry.manifest.version

\* C3: every definition in the registry comes from a module that declares the
\* agent_id and version of its manifest and is stored under those keys; when a
\* module of the tree declares another identity, the pass goes on until it
\* raises: no registry is returned and the application never serves one.
C3_DeclaredIdentityMatches ==
    /\ DiscoveryProceeds
    /\ \A pair \in RegistryPairs(registry) :
          LET definition == DictGet(DictGet(registry, pair[1]), pair[2])
              module == tree.entries[definition.module_path].module
          IN  /\ definition.manifest.agent_id = pair[1]
              /\ definition.manifest.version = pair[2]
              /\ module.state = "ok"
              /\ module.agent_id = pair[1]
              /\ module.agent_version = pair[2]
    /\ (\E slot \in TreeDirs : IdentityMismatch(tree.entries[slot])) =>
          d_pc # "returned" /\ app_pc # "serving"

\* C3 witness: discovery raised at a module whose declared version is not the
\* manifest's, after other definitions had been registered.
C3_Witness ==
    /\ d_pc = "raised"
    /\ IdentityMismatch(CurrentEntry)
    /\ CurrentEntry.module.agent_id = CurrentEntry.manifest.agent_id
    /\ registry # EmptyDict

\* A directory with a manifest.json and no agent.py.
ManifestWithoutAgentPy(entry) ==
    entry.is_dir /\ entry.manifest.state # "absent" /\ ~entry.agent_py

\* C4: when some version directory holds a manifest.json and no agent.py,
\* the pass goes on until it raises: discover_agents returns no registry,
\* neither the definitions found before the directory nor those after it,
\* and the application never serves.
C4_MissingAgentPyAborts ==
    /\ DiscoveryProceeds
    /\ (\E slot \in TreeDirs : ManifestWithoutAgentPy(tree.entries[slot])) =>
          /\ d_pc # "returned"
          /\ app_pc # "serving"
          /\ registry_by_id = EmptyDict

\* C4 witness: discovery raised at a directory with a valid manifest and no
\* agent.py, with definitions registered before it and directories left after it.
C4_Witness ==
    /\ d_pc = "raised"
    /\ CurrentEntry.manifest.state = "valid"
    /\ ~CurrentEntry.agent_py
    /\ registry # EmptyDict
    /\ Len(version_dirs) + Len(agent_dirs) > 1

----------------------------------------------------------------------------
(* Properties of run_agent *)

\* The request of client c has left the step of run_agent that picks a version.
VersionSelected(c) ==
    rq[c].handler = "run_agent" /\ rq[c].pc \notin {"idle", "select"}

NoRepeats(seq) == \A i, j \in 1..Len(seq) : seq[i] = seq[j] => i = j

\* C8: a run request whose id matches no alias ends with the 404 "Agent not
\* found" and resolves nothing; a run request whose id resolves and whose
\* requested version is not in the version map ends with a 400 that lists
\* exactly the versions of that map.
C8_NotFoundAndUnknownVersion ==
    \A c \in Clients :
        rq[c].handler = "run_agent" =>
            /\ ~AliasFound(registry_by_alias, rq[c].agent_id) =>
                  /\ rq[c].pc = "done"
                  /\ rq[c].response = HTTPException(404, "Agent not found")
                  /\ rq[c].versions = EmptyDict
                  /\ rq[c].definition = NoDefinition
                  /\ rq[c].calls = <<>>
            /\ (/\ VersionSelected(c)
                /\ AliasFound(registry_by_alias, rq[c].agent_id)
                /\ rq[c].version.given
                /\ ~DictHas(rq[c].versions, rq[c].version.value)) =>
                  /\ rq[c].pc = "done"
                  /\ rq[c].response.status = 400
                  /\ rq[c].response.detail = "Version not found"
                  /\ NoRepeats(rq[c].response.versions)
                  /\ {rq[c].response.versions[i] : i \in 1..Len(rq[c].response.versions)}
                        = DictKeySet(rq[c].versions)

\* C9: when the caller supplies a version string, the empty string included,
\* the definition that runs is the version map's entry for that string, or the
\* request ends with the unknown-version 400; the latest version runs only
\* when no version is supplied.
C9_ExactVersionWhenSupplied ==
    \A c \in Clients :
        VersionSelected(c) /\ AliasFound(registry_by_alias, rq[c].agent_id) =>
            /\ rq[c].version.given /\ DictHas(rq[c].versions, rq[c].version.value) =>
                  rq[c].definition = DictGet(rq[c].versions, rq[c].version.value)
            /\ rq[c].version.given /\ ~DictHas(rq[c].versions, rq[c].version.value) =>
                  /\ rq[c].pc = "done"
                  /\ rq[c].response.status = 400
                  /\ rq[c].response.detail = "Version not found"
                  /\ rq[c].definition = NoDefinition
            /\ ~rq[c].version.given =>
                  rq[c].definition =
                      DictGet(rq[c].versions,
                              resolve_latest_version(DictKeys(rq[c].versions)))

\* The payload lacks a required field of the model, or holds a value of the
\* wrong type in it.
FailsInputModel(input_model, payload) ==
    \/ input_model = "MinerInput" /\ payload["search_console_rows"] # "ok"
    \/ input_model = "MinerInput" /\ payload["site_pages"] = "mistyped"
    \/ input_model = "PlannerInput" /\ payload["metrics"] # "ok"

Called(c, name) == \E i \in 1..Len(rq[c].calls) : rq[c].calls[i] = name

\* C10: a payload that fails the input model of the resolved definition ends
\* with the 400 "Invalid payload" and neither build_graph, prepare_state nor
\* graph.invoke has been called for the request; whenever one of them has been
\* called, the input model was called first and accepted the payload.
C10_ValidationBeforePipeline ==
    \A c \in Clients :
        rq[c].handler = "run_agent" =>
            /\ (/\ rq[c].pc \notin {"idle", "select", "validate"}
                /\ rq[c].definition # NoDefinition
                /\ FailsInputModel(rq[c].definition.input_model, rq[c].payload)) =>
                  /\ rq[c].pc = "done"
                  /\ rq[c].response.status = 400
                  /\ rq[c].response.detail = "Invalid payload"
                  /\ rq[c].calls = <<"input_model">>
            /\ (Called(c, "build_graph") \/ Called(c, "prepare_state") \/ Called(c, "invoke")) =>
                  /\ rq[c].calls[1] = "input_model"
                  /\ ~FailsInputModel(rq[c].definition.input_model, rq[c].payload)

\* C10 witness: a request for a registered agent and version was rejected
\* because its required field holds a value of the wrong type.
C10_Witness ==
    \E c \in Clients :
        /\ rq[c].pc = "done"
        /\ rq[c].response.status = 400
        /\ rq[c].response.detail = "Invalid payload"
        /\ rq[c].definition.input_model = "MinerInput"
        /\ rq[c].payload["search_console_rows"] = "mistyped"
        /\ rq[c].payload["metrics"] = "ok"

\* The request of client c is a run request in which `step` raised.
RaisedIn(c, step) == rq[c].handler = "run_agent" /\ rq[c].raised.in = step

\* C11: when graph.invoke raises, whatever the message of the exception, the
\* request ends with the 500 whose detail is "Agent execution failed", and
\* the text of the exception is no part of the response.
C11_ExecutionFailureIsOpaque ==
    \A c \in Clients :
        RaisedIn(c, "invoke") =>
            /\ rq[c].pc = "done"
            /\ rq[c].response.status = 500
            /\ rq[c].response.detail = "Agent execution failed"
            /\ rq[c].response.exc = "none"
            /\ rq[c].response.exc # rq[c].raised.text
            /\ rq[c].response.result = NoResult

\* C11 witness: graph.invoke raised a KeyError that names a secret, and the
\* request has been answered.
C11_Witness ==
    \E c \in Clients :
        /\ RaisedIn(c, "invoke")
        /\ rq[c].raised.text = "KeyError: 'api_key'"
        /\ rq[c].pc = "done"
        /\ rq[c].response.status = 500

\* The four outcomes of a run request.
ValidatedOutput(c) ==
    /\ rq[c].response.status = 200
    /\ rq[c].response.result # NoResult
    /\ rq[c].raised = NoException
NotFound(c) == rq[c].response.status = 404 /\ rq[c].response.detail = "Agent not found"
BadRequest(c) ==
    /\ rq[c].response.status = 400
    /\ rq[c].response.detail \in {"Version not found", "Invalid payload"}
OpaqueFailure(c) ==
    /\ rq[c].response.status = 500
    /\ rq[c].response.detail = "Agent execution failed"
    /\ rq[c].response.exc = "none"

\* C12: a run request that has ended has exactly one of the four outcomes,
\* and a request in which build_graph, prepare_state, graph.invoke or the
\* output model raised has the opaque 500.
C12_FourOutcomes ==
    \A c \in Clients :
        rq[c].handler = "run_agent" /\ rq[c].pc = "done" =>
            /\ Cardinality({o \in {"ok", "404", "400", "500"} :
                              \/ o = "ok" /\ ValidatedOutput(c)
                              \/ o = "404" /\ NotFound(c)
                              \/ o = "400" /\ BadRequest(c)
                              \/ o = "500" /\ OpaqueFailure(c)}) = 1
            /\ rq[c].raised.in \in {"build_graph", "prepare_state", "invoke", "output_model"}
                  => OpaqueFailure(c)

\* The number of times `name` is in the calls of the request of client c.
TimesCalled(c, name) ==
    Cardinality({i \in 1..Len(rq[c].calls) : rq[c].calls[i] = name})

\* No step of run_agent follows a response: the request stays as it is until
\* the response has been sent.
ReportedOnce ==
    \A c \in Clients :
        rq[c].pc = "done" => rq'[c] = rq[c] \/ rq'[c] = IdleRequest

\* In no run request is build_graph, prepare_state or graph.invoke called
\* twice, and a failed graph.invoke is the last call of its request.
InvokedAtMostOnce ==
    \A c \in Clients :
        rq[c].handler = "run_agent" =>
            /\ TimesCalled(c, "build_graph") <= 1
            /\ TimesCalled(c, "prepare_state") <= 1
            /\ TimesCalled(c, "invoke") <= 1
            /\ RaisedIn(c, "invoke") =>
                  /\ rq[c].pc = "done"
                  /\ rq[c].calls = <<"input_model", "build_graph", "prepare_state", "invoke">>
                  /\ rq[c].response.status = 500

\* C13: within one run request build_graph, prepare_state and graph.invoke
\* are each called at most once; after a failed graph.invoke none of them is
\* called again, the request ends with its 500 and nothing follows that
\* response.
C13_NoRetry == []InvokedAtMostOnce /\ [][ReportedOnce]_vars

\* C13 witness: a request whose graph.invoke failed has been answered.
C13_Witness ==
    \E c \in Clients :
        /\ RaisedIn(c, "invoke")
        /\ rq[c].pc = "done"
        /\ TimesCalled(c, "invoke") = 1
        /\ rq[c].raised.text = "division by zero"

\* The registries, the response model and the metadata are what registration
\* made of the registry that discover_agents returned.
AsRegistered ==
    app_pc = "serving" =>
        /\ registry_by_id = registry
        /\ registry_by_alias = _build_alias_registry(registry)
        /\ metadata = get_agent_metadata(registry)
        /\ response_model = _build_response_model(registry, TRUE).model

\* No step of a handler changes them.
HandlersOnlyRead ==
    app_pc = "serving" =>
        UNCHANGED <<app_pc, registry_by_id, registry_by_alias, response_model, metadata>>

\* C15: once register_agents has finished, the id registry, the alias
\* registry with its version maps, the response model and the metadata list
\* keep the values registration gave them, through every step of every
\* handler of every client.
C15_RegistryIsReadOnly == []AsRegistered /\ [][HandlersOnlyRead]_vars

\* C15 witness: while one client's run_agent holds a pipeline, another
\* client has been answered by a handler that reads the metadata, and the
\* metadata still lists the agent.
C15_Witness ==
    \E c1, c2 \in AllClients :
        /\ rq[c1].handler = "run_agent"
        /\ rq[c1].pc = "invoke"
        /\ rq[c2].handler \in {"list_agents", "agent_registry", "agent_catalog"}
        /\ rq[c2].pc = "done"
        /\ Len(rq[c2].response.items) = 1
        /\ Len(metadata) = 1

\* The output models of the definitions of a registry.
OutputModelsOf(reg) ==
    UNION {{reg[i][2][j][2].output_model : j \in 1..Len(reg[i][2])} : i \in 1..Len(reg)}

\* C17: once discover_agents has returned, registration does not fail on the
\* response model: the application comes to serve, with no enforced shape
\* for a registry without definitions, the one output model when all
\* definitions share it, and for several output models either a union of all
\* of them or, where no union can be built, no enforced shape.
C17_ResponseModelNeverFails ==
    d_pc = "returned" =>
        /\ app_pc # "crashed"
        /\ app_pc = "serving" =>
              LET models == OutputModelsOf(registry_by_id)
              IN  /\ models = {} => response_model = NoModel
                  /\ Cardinality(models) = 1 =>
                        response_model = [kind |-> "model", members |-> models]
                  /\ Cardinality(models) > 1 =>
                        \/ response_model = [kind |-> "union", members |-> models]
                        \/ response_model = NoModel

\* All eleven fields are in the file, each with a value of its type.
Complete11(file) ==
    /\ file.exists
    /\ file.json = "object"
    /\ \A f \in {"agent_id", "version", "name", "category", "description", "when_to_use",
                 "inputs", "outputs", "owner", "frequency", "cost"} :
          file.fields[f] = "ok"

Descending(versions) ==
    \A i, j \in 1..Len(versions) :
        i < j => ~KeyLess(_version_sort_key(versions[i]), _version_sort_key(versions[j]))

\* The registered agent ids that have the requested id among their aliases.
CanonicalIds(agent_id) ==
    {id \in DictKeySet(registry_by_id) :
        \E i \in 1..Len(_aliases(id)) : _aliases(id)[i] = _normalize_agent_id(agent_id)}

\* C19: a versions request for an id that resolves is answered with the
\* manifest id of the agent whatever the spelling, every registered version
\* once in descending order, and as latest_version the first of that list,
\* which is the version a run request without a version executes; a
\* versions request for an id that does not resolve is answered with the 404.
C19_VersionsListing ==
    \A c \in Clients :
        /\ rq[c].handler = "list_agent_versions" /\ rq[c].pc = "done" =>
              IF AliasFound(registry_by_alias, rq[c].agent_id)
              THEN LET response == rq[c].response
                       versions == DictGet(registry_by_id, response.agent_id)
                   IN  /\ response.status = 200
                       /\ response.agent_id \in CanonicalIds(rq[c].agent_id)
                       /\ NoRepeats(response.versions)
                       /\ {response.versions[i] : i \in 1..Len(response.versions)}
                             = DictKeySet(versions)
                       /\ Descending(response.versions)
                       /\ response.latest_version = response.versions[1]
                       /\ response.latest_version
                             = Answer(registry_by_id, rq[c].agent_id, NoVersion)
                                   .definition.manifest.version
              ELSE /\ rq[c].response = HTTPException(404, "Agent not found")
                   /\ CanonicalIds(rq[c].agent_id) = {}
        /\ (/\ VersionSelected(c)
            /\ rq[c].versions # <<>>
            /\ ~rq[c].version.given) =>
              rq[c].definition.manifest.version
                  = SortedVersionsDesc(DictKeys(rq[c].versions))[1]

\* C19 witness: the versions of a-b were asked for as A_B; the agent has two
\* versions of equal rank, 1 and v1, and the answer names the first
\* registered of them as the latest.
C19_Witness ==
    \E c \in Clients :
        /\ rq[c].handler = "list_agent_versions"
        /\ rq[c].pc = "done"
        /\ rq[c].agent_id = <<"A", "_", "B">>
        /\ rq[c].response.agent_id = <<"a", "-", "b">>
        /\ rq[c].response.versions = <<<<"v", "1">>, <<"1">>>>
        /\ rq[c].response.latest_version = <<"v", "1">>

\* The table holds one row per run id, and the row is what the last save_run
\* for that id wrote.
OneRecordPerRunId ==
    /\ \A i, j \in 1..Len(agent_runs) :
          agent_runs[i].run_id = agent_runs[j].run_id => i = j
    /\ \A i \in 1..Len(agent_runs) :
          /\ DictHas(last_save, agent_runs[i].run_id)
          /\ _row_to_record(agent_runs[i]) = DictGet(last_save, agent_runs[i].run_id)
    /\ \A run_id \in DictKeySet(last_save) :
          \E i \in 1..Len(agent_runs) : agent_runs[i].run_id = run_id

\* get_run returns what the last save_run for the run id wrote, or None.
GetRunReturnsLastSave ==
    \A t \in AllThreads :
        (th[t].pc = "select" /\ th'[t].pc = "returned") =>
            th'[t].result = IF DictHas(last_save, th[t].run_id)
                            THEN DictGet(last_save, th[t].run_id)
                            ELSE NoRecord

\* The records of the table whose agent id is agent_id.
RecordsOf(agent_id) ==
    {_row_to_record(agent_runs[i]) :
        i \in {j \in 1..Len(agent_runs) : agent_runs[j].agent_id = agent_id}}

\* No record of the list was created before a later one.
NewestFirst(records) ==
    \A i, j \in 1..Len(records) :
        i < j => Instant(records[i].created_at) >= Instant(records[j].created_at)

\* A list_runs(agent_id) that was iterated to its end has handed out the
\* records of that agent id, each once, newest first.
ListRunsReturnsMatching ==
    \A t \in AllThreads :
        (/\ th[t].op = "list_runs"
         /\ th[t].agent_id.given
         /\ th[t].pc \in {"query", "suspended"}
         /\ th'[t].pc = "returned") =>
            LET received == th'[t].received
            IN  /\ {received[i] : i \in 1..Len(received)} = RecordsOf(th[t].agent_id.value)
                /\ Len(received) = Cardinality(RecordsOf(th[t].agent_id.value))
                /\ NewestFirst(received)

\* C20: after any sequence of save_run calls the table holds at most one
\* record per run id, the one the last save_run for that id wrote; get_run
\* returns that record, or None when the id was never saved; and list_runs
\* returns exactly the records whose agent id equals its argument, the
\* newest first.
C20_LedgerContract ==
    /\ []OneRecordPerRunId
    /\ [][GetRunReturnsLastSave /\ ListRunsReturnsMatching]_vars

\* The definitions of a registry, whatever their id and version.
RegisteredDefinitions(reg) ==
    UNION {{reg[i][2][j][2] : j \in 1..Len(reg[i][2])} : i \in 1..Len(reg)}

\* The slot is a file, or a file of base_path.
NotADirectory(slot) == slot \in DOMAIN tree.entries /\ ~tree.entries[slot].is_dir

\* The slot is, or lies in, a directory with a reserved name.
InReserved(slot) == Reserved(slot[1]) \/ Reserved(slot[2])

\* discover_agents is at a version directory: it is loading it, or raised there.
AtSlot(slot) ==
    /\ d_pc \in {"loop", "raised"}
    /\ version_dirs # <<>>
    /\ CurrentSlot = slot

\* No file is visited as a directory, registered, or the place of an error.
FilesSkipped ==
    /\ \A i \in 1..Len(agent_dirs) : <<agent_dirs[i], <<>>>> \notin DOMAIN tree.entries
    /\ <<agent_dir, <<>>>> \notin DOMAIN tree.entries
    /\ \A slot \in DOMAIN tree.entries :
          NotADirectory(slot) =>
              /\ ~AtSlot(slot)
              /\ \A definition \in RegisteredDefinitions(registry) :
                    definition.module_path # slot

\* No directory with a reserved name is registered or the place of an error.
ReservedSkipped ==
    \A slot \in DOMAIN tree.entries :
        InReserved(slot) =>
            /\ ~(d_pc = "raised" /\ AtSlot(slot))
            /\ \A definition \in RegisteredDefinitions(registry) :
                  definition.module_path # slot

\* C21: discover_agents skips, among the entries of base_path and among the
\* entries of a family, every file and every directory whose name begins
\* with the reserved prefix: none of them is registered and none makes
\* discovery raise, whatever manifest.json and agent.py it holds.
C21_ReservedAndFilesSkipped == FilesSkipped /\ ReservedSkipped

\* The registered id resolves to the version map registered under it.
ResolvesToOwn(id) ==
    /\ AliasFound(registry_by_alias, id)
    /\ _resolve_versions(registry_by_alias, id) = DictGet(registry_by_id, id)

\* C22: once the application serves, every registered agent id resolves
\* through the alias registry to its own version map, and a versions request
\* made with a registered id is answered with that id: no alias of another
\* registered id has taken its place.
C22_EveryAgentReachable ==
    app_pc = "serving" =>
        /\ \A id \in DictKeySet(registry_by_id) : ResolvesToOwn(id)
        /\ \A c \in Clients :
              (/\ rq[c].handler = "list_agent_versions"
               /\ rq[c].pc = "done"
               /\ rq[c].agent_id \in DictKeySet(registry_by_id)) =>
                  /\ rq[c].response.status = 200
                  /\ rq[c].response.agent_id = rq[c].agent_id

\* Control of thread t is with the caller of the ledger: no call is under
\* way, a call has returned, or list_runs has handed out a record and waits
\* for the caller to ask for the next.
OutsideLedger(t) == th[t].pc \in {"idle", "returned", "suspended"}

\* No thread holds the lock while its control is outside the ledger.
LockFreeOutsideLedger == \A t \in AllThreads : OutsideLedger(t) => _lock.owner # t

\* Every save_run and get_run that was called returns.
CallsComplete ==
    \A t \in AllThreads :
        (th[t].op \in {"save_run", "get_run"} /\ th[t].pc = "init_db")
            ~> (th[t].pc = "returned")

\* C23: the lock of the ledger is never held while the control of its holder
\* is outside a ledger call, also not when a thread has received only some
\* of the records of list_runs; so every save_run and get_run that another
\* thread calls eventually returns.
C23_LockNeverHeldOutsideCalls == []LockFreeOutsideLedger /\ CallsComplete

====
